---- MODULE Spec2Model ----
(***************************************************************************)
(* A model of the ssh-mcp repository.                                      *)
(*                                                                         *)
(* Part 1 (specification Spec): the inline WebShell gateway                *)
(*   src/unnamed/part_000 (webshell-gateway/index.ts) and                  *)
(*   src/src/webshell-gateway/db.ts: the targets table, the in-memory      *)
(*   sessions Map, the sessions (audit) table and, per WebSocket           *)
(*   connection, the attach handler with its ssh / stream / socket event   *)
(*   handlers.                                                             *)
(*                                                                         *)
(* The ssh2 client and the ws socket are external libraries.  Their        *)
(* events are the environment of the model:                                *)
(*   - a ws socket is OPEN when 'connection' fires; socket.close() moves   *)
(*     it to CLOSING; its 'close' event fires once, when it becomes        *)
(*     CLOSED (the caller closed it, or the closing handshake ended);      *)
(*   - an ssh client is connecting after connect(); it then emits 'ready'  *)
(*     or 'error'; 'error' is emitted at most once and only before end()   *)
(*     was called; 'close' is emitted once, last;                          *)
(*   - the ssh.shell callback fires once, with a stream or with an error,  *)
(*     while the connection is up; the stream emits 'close' once.          *)
(* Once ssh.end() was called, or 'error' was emitted, the handlers that    *)
(* still run (ssh 'close', stream 'close') only close a socket that is     *)
(* OPEN, and the socket is not OPEN then: their code has no effect, so the *)
(* ssh client is "ended" from that point on and its later events are not   *)
(* separate steps.                                                         *)
(* The store executes every statement atomically; statements issued       *)
(* without awaiting their predecessor (the finalize updates) may execute   *)
(* in any order.                                                           *)
(*                                                                         *)
(* Part 2 (specification ResolveSpec): the MCP server src/src/index.ts,    *)
(*   its tools open_ssh_terminal and create_ssh_web_terminal and its route *)
(*   POST /ui/session: each fetches the target list of the gateway,        *)
(*   chooses a target or throws, and then creates a session through        *)
(*   POST /api/session of the gateway.  The registry is any one the target *)
(*   API can have built and does not change while the tools run.           *)
(*                                                                         *)
(* Part 3 (specification AuthSpec): the auth_sessions table of db.ts and   *)
(*   its methods createAuthSession, getAuthSession, deleteAuthSession and  *)
(*   pruneExpiredAuthSessions, called by any number of concurrent callers. *)
(*   Here a Date is a number of half seconds; a datetime column keeps      *)
(*   whole seconds.  getAuthSession is three steps: its SELECT executes,   *)
(*   its continuation compares the row with Date.now(), its DELETE         *)
(*   executes.                                                             *)
(*                                                                         *)
(* Part 4 (specifications DataSpec and PairSpec): the bytes a bridge       *)
(*   carries, for one session that exists from the start.  A chunk of the  *)
(*   shell channel is a sequence of bytes, data.toString('utf8') decodes   *)
(*   it by itself, and the socket transmits the encoding of the string.    *)
(*   Here the caller's close frame is a step of its own: the socket is     *)
(*   CLOSING from then until its 'close' event.  DataSpec has the          *)
(*   connections of Spec; PairSpec has one more, so that two bridges of    *)
(*   the same session exist at once.                                       *)
(*                                                                         *)
(* Part 5: WideSpec is Spec with the events of Part 4 and one more         *)
(*   connection; CrudSpec runs two PUT or POST /api/targets requests at    *)
(*   once, each split where it awaits db.getTarget; SecretSpec is Part 2   *)
(*   over registries whose targets hold a password and a private key, with *)
(*   list_ssh_targets and GET /ui/targets; BootSpec is the createDbWithRetry*)
(*   call that startWebshellGateway awaits before anything else runs.      *)
(*                                                                         *)
(* A value of new Date() is an opaque token naming the read: <<handler>>   *)
(* for the read made by that handler of a connection, <<"create", id>> for *)
(* the read made when session id was created.  No definition compares two  *)
(* dates.                                                                  *)
(***************************************************************************)
EXTENDS Integers, Sequences, FiniteSets, TLC

\* ------------------------------------------------------------------ bounds
MaxSessions == 2
MaxConns == 1
MaxTargets == 3
MaxTime == 3
MaxCreations == 21
MaxChunks == 2

\* ------------------------------------------------------------- value sets
Null == << >>
UUIDs == 1..(MaxSessions + 1)
Conns == 1..MaxConns
Slots == 1..(MaxConns + 1)
DefaultPort == 22
RecentSessionsCap == 20

\* A string the code inspects (an id, a display name, a hint) is the sequence
\* of its characters; "" is << >>.  A string the code only stores and hands on
\* (a host, a username, a reason) is one opaque value.
EmptyStr == << >>
Hosts == {"10.0.0.5", "10.0.0.6"}
Reasons == {"incident-123"}

\* POST /api/targets bodies of the gateway specification: one target
TargetBodies == { [id |-> <<"a", " ">>, host |-> "10.0.0.5", name |-> <<" ", "B">>] }
\* body.targetId of POST /api/session
BodyTargetIds == { <<"a", " ">>, <<" ">> }
\* :id of DELETE /api/targets/:id
TargetIds == { <<"a">> }

\* The registries of the resolver specification hold at most MaxTargets of
\* these ids, each with one of these body.name values.  The ids are lower
\* case, so that the order and the equality of the id column are the same
\* under every collation of the store.
IdPool == { <<"a">>, <<"b">>, <<"a", "b">>, <<"z">> }
BodyNames == { EmptyStr, <<"B", " ">>, <<"a", " ", "b">> }
\* targetHint of open_ssh_terminal, targetId of the exact lookups
Hints == { <<"b">>, <<"B">>, <<" ", "b">>, <<"a">>, <<"z">>, <<" ">> }
OptTargetIds == { Null } \cup { <<h>> : h \in Hints }
\* auth_sessions: the tokens, the callers of getAuthSession, the instants
\* (half seconds) a caller can pass as a Date
Tokens == {"t1", "t2"}
Callers == {"c1"}
Times == 0..MaxTime
IdleGet == [phase |-> "idle", token |-> "none", session |-> Null,
            returned |-> "nothing"]
\* What the shell channel emits is a Buffer: the sequence of its bytes, of
\* which the model has 'a' (61) and the two bytes of U+00E9 (C3 A9).  The
\* chunks: a whole character, and the halves of one the channel split.
Chunks == { <<"61">>, <<"C3", "A9">>, <<"C3">>, <<"A9">> }
\* What the socket's 'message' event hands over: a Buffer or a string
Messages == { [type |-> "Buffer", data |-> <<"C3">>],
              [type |-> "string", data |-> <<"a">>] }
\* the clients of the target API that have a request in progress at once
Requesters == {"r1", "r2"}
IdleCall == [phase |-> "idle", op |-> "none", id |-> EmptyStr, body |-> Null,
             existing |-> Null, status |-> 0]
\* :id of PUT /api/targets/:id and its bodies: "" is a field the body lacks
PutIds == { <<"a">>, <<"b">> }
PutBodies == { [host |-> "10.0.0.6", username |-> ""],
               [host |-> "", username |-> "admin"] }
\* POST /api/targets bodies of the specification of concurrent requests
PostBodies == { [id |-> <<"b">>, host |-> h, name |-> EmptyStr] : h \in Hosts }
IdleChannel == [emitted |-> << >>, messages |-> << >>, written |-> << >>]
\* the two diagnostics the gateway sends: strings, each held as one element
ShellFailedMsg == <<"shell-open-failed">>
ConnectFailedMsg == <<"connect-failed">>

VARIABLES
  targets,      \* db table targets: id -> WebshellTargetRow
  sessions,     \* the in-memory Map<string, SSHSessionInfo>
  audit,        \* db table sessions: id -> SessionHistoryRow
  usedUUIDs,    \* the values randomUUID() has returned
  bridge,       \* per WebSocket connection: the attach handler's closure state
  sent,         \* per connection: the messages an OPEN socket was given to send
  channel,      \* per connection: the chunks the shell channel emitted and
                \* the socket's state at each, the messages the socket
                \* received, the stream.write calls (history)
  calls,        \* per client of the target API: its request in progress, with
                \* the row its SELECT returned, or the response it was sent
  pending,      \* finalize updates issued and not yet executed by the store
  lastApplied,  \* per audit id: the finalize update executed last (history)
  boot,         \* the createDbWithRetry call of startWebshellGateway: its
                \* position, attempt and lastError, what it returned or threw,
                \* and the WebshellDb.create() calls made (history)
  mcpCall,      \* MCP server: the tool call awaiting createWebshellSession
  reply,        \* MCP server: what the last tool call returned or threw
  recentSessions, \* MCP server: const recentSessions: RecentSession[]
  recentHistory, \* MCP server: every session createWebshellSession recorded,
                \* oldest first (history)
  authSessions, \* db table auth_sessions: token -> AuthSessionRow
  now,          \* the clock read by Date.now(), in half seconds
  getCall,      \* per caller: its getAuthSession call
  lastPrune     \* the pruneExpiredAuthSessions call, while it is the last
                \* statement the table executed (history)

gwVars == << targets, sessions, audit, usedUUIDs, bridge, sent, channel, calls,
            pending, lastApplied, boot >>
mcpVars == << mcpCall, reply, recentSessions, recentHistory >>
authVars == << authSessions, now, getCall, lastPrune >>
vars == << targets, sessions, audit, usedUUIDs, bridge, sent, channel, calls,
          pending, lastApplied, boot,
           mcpCall, reply, recentSessions, recentHistory,
           authSessions, now, getCall, lastPrune >>

\* ------------------------------------------------------- string operations
\* String.prototype.toLowerCase, on the alphabet of the model
lowerChar(ch) ==
  CASE ch = "A" -> "a"
    [] ch = "B" -> "b"
    [] OTHER -> ch

toLowerCaseKeepsCase(s) == s

toLowerCase(s) == [i \in 1..Len(s) |-> lowerChar(s[i])]

RECURSIVE trimStart(_)
trimStart(s) ==
  IF s # EmptyStr /\ Head(s) = " " THEN trimStart(Tail(s)) ELSE s

RECURSIVE trimEnd(_)
trimEnd(s) ==
  IF s # EmptyStr /\ s[Len(s)] = " " THEN trimEnd(SubSeq(s, 1, Len(s) - 1)) ELSE s

\* String.prototype.trim
trim(s) == trimEnd(trimStart(s))

\* String.prototype.includes
includes(s, sub) ==
  \E i \in 0..(Len(s) - Len(sub)) : SubSeq(s, i + 1, i + Len(sub)) = sub

\* ------------------------------------------------------------ db.ts rows
WebshellTargetRow(id, host, port, username, name) ==
  [id |-> id, host |-> host, port |-> port, username |-> username, name |-> name]

createSessionHistoryRow(id, target, reason) ==
  [id |-> id,
   targetId |-> target.id,
   targetName |-> target.name,
   host |-> target.host,
   port |-> target.port,
   username |-> target.username,
   startTime |-> <<"create", id>>,
   endTime |-> Null,
   status |-> "connected",
   reason |-> IF reason = "" THEN Null ELSE <<reason>>]  \* reason || null

\* INSERT INTO sessions ...
dbCreateSession(tbl, row) ==
  [k \in DOMAIN tbl \cup {row.id} |-> IF k = row.id THEN row ELSE tbl[k]]

\* a variant that forgets the endTime column
updateSessionStatusOnly(tbl, id, endTime, status) ==
  [k \in DOMAIN tbl |->
     IF k = id THEN [tbl[k] EXCEPT !.status = status] ELSE tbl[k]]

\* a variant in which the first terminal status wins and the endTime is
\* always overwritten
updateSessionKeepFirstStatus(tbl, id, endTime, status) ==
  [k \in DOMAIN tbl |->
     IF k = id
     THEN [tbl[k] EXCEPT !.endTime = endTime,
                         !.status = IF @ = "connected" THEN status ELSE @]
     ELSE tbl[k]]

\* a variant that opens a finalized record again
updateSessionEndTimeReopens(tbl, id, endTime, status) ==
  [k \in DOMAIN tbl |->
     IF k = id
     THEN IF tbl[k].status = "connected"
          THEN [tbl[k] EXCEPT !.endTime = endTime, !.status = status]
          ELSE [tbl[k] EXCEPT !.endTime = Null, !.status = "connected"]
     ELSE tbl[k]]

\* a variant without the WHERE clause
updateSessionEndTimeEveryRow(tbl, id, endTime, status) ==
  [k \in DOMAIN tbl |-> [tbl[k] EXCEPT !.endTime = endTime, !.status = status]]

\* UPDATE sessions SET endTime = ?, status = ? WHERE id = ?
updateSessionEndTime(tbl, id, endTime, status) ==
  [k \in DOMAIN tbl |->
     IF k = id THEN [tbl[k] EXCEPT !.endTime = endTime, !.status = status]
     ELSE tbl[k]]

\* a variant that can repeat a value
randomUUIDRepeating(used) == 1

\* randomUUID(): a value never returned before
randomUUID(used) == CHOOSE u \in UUIDs \ used : \A v \in UUIDs \ used : u <= v

\* ------------------------------------------------------------------ Init
\* ---------------------------------------- gateway: createDbWithRetry
\* maxRetries: number = 10, delayMs: number = 3000
DefaultMaxRetries == 10
DefaultDelayMs == 3000
\* what a failing WebshellDb.create() rejects with: the Errors of the pool
DbErrors == { [isError |-> TRUE, message |-> "ECONNREFUSED"],
             [isError |-> TRUE, message |-> "ER_ACCESS_DENIED_ERROR"] }
\* new Error('Failed to init WebshellDb')
FailedToInit == [isError |-> TRUE, message |-> "Failed to init WebshellDb"]

\* how the k-th WebshellDb.create() settles: a new handle, or a rejection
created(k) == [ok |-> TRUE, db |-> <<[pool |-> k]>>, error |-> Null]
rejected(e) == [ok |-> FALSE, db |-> Null, error |-> <<e>>]

\* throw lastError instanceof Error ? lastError : new Error(...)
thrownAfter(lastError) ==
  IF lastError # Null /\ lastError[1].isError THEN lastError[1]
  ELSE FailedToInit

\* a variant whose loop stops one attempt early
forLoopTestStrict(b) ==
  IF b.attempt < b.maxRetries THEN [b EXCEPT !.pc = "create"]
  ELSE [b EXCEPT !.pc = "threw", !.thrown = <<thrownAfter(b.lastError)>>]

\* the test attempt <= maxRetries of the for statement: into the body, or
\* past the loop to the throw
forLoopTest(b) ==
  IF b.attempt <= b.maxRetries THEN [b EXCEPT !.pc = "create"]
  ELSE [b EXCEPT !.pc = "threw", !.thrown = <<thrownAfter(b.lastError)>>]

\* createDbWithRetry(maxRetries, delayMs) up to its first await
createDbWithRetry(maxRetries, delayMs) ==
  forLoopTest([pc |-> "entry", maxRetries |-> maxRetries, delayMs |-> delayMs,
               attempt |-> 1, lastError |-> Null, returned |-> Null,
               thrown |-> Null, creates |-> << >>, slept |-> 0])

\* const db = await createDbWithRetry() has returned: the handlers below run
\* only then
Started ==
  [createDbWithRetry(DefaultMaxRetries, DefaultDelayMs) EXCEPT
     !.pc = "returned", !.returned = created(1).db, !.creates = <<created(1)>>]

IdleBridge ==
  [phase |-> "idle", info |-> Null, sock |-> "NONE",
   onClose |-> FALSE, ssh |-> "none", shell |-> "none", connect |-> Null]

InitWith(registry) ==
  /\ targets = registry
  /\ sessions = << >>
  /\ audit = << >>
  /\ usedUUIDs = {}
  /\ bridge = [c \in Slots |-> IdleBridge]
  /\ sent = [c \in Slots |-> << >>]
  /\ channel = [c \in Slots |-> IdleChannel]
  /\ calls = [r \in Requesters |-> IdleCall]
  /\ pending = {}
  /\ lastApplied = << >>
  /\ boot = Started
  /\ mcpCall = Null
  /\ reply = Null
  /\ recentSessions = << >>
  /\ recentHistory = << >>
  /\ authSessions = << >>
  /\ now = 0
  /\ getCall = [k \in Callers |-> IdleGet]
  /\ lastPrune = Null

\* the gateway starts on an empty store
Init == InitWith(<< >>)

\* ------------------------------------ gateway: start, createDbWithRetry
\* startWebshellGateway calls createDbWithRetry() on the store
BootInit ==
  /\ targets = << >>
  /\ sessions = << >>
  /\ audit = << >>
  /\ usedUUIDs = {}
  /\ bridge = [c \in Slots |-> IdleBridge]
  /\ sent = [c \in Slots |-> << >>]
  /\ channel = [c \in Slots |-> IdleChannel]
  /\ calls = [r \in Requesters |-> IdleCall]
  /\ pending = {}
  /\ lastApplied = << >>
  /\ boot = createDbWithRetry(DefaultMaxRetries, DefaultDelayMs)
  /\ mcpCall = Null
  /\ reply = Null
  /\ recentSessions = << >>
  /\ recentHistory = << >>
  /\ authSessions = << >>
  /\ now = 0
  /\ getCall = [k \in Callers |-> IdleGet]
  /\ lastPrune = Null

\* await WebshellDb.create() settled: return db, or catch (e) with
\* lastError = e, up to the await of the timer
WebshellDbCreate(outcome) ==
  /\ boot.pc = "create"
  /\ boot' = IF outcome.ok
             THEN [boot EXCEPT !.pc = "returned", !.returned = outcome.db,
                               !.creates = Append(@, outcome)]
             ELSE [boot EXCEPT !.pc = "sleep", !.lastError = outcome.error,
                               !.creates = Append(@, outcome)]
  /\ UNCHANGED << targets, sessions, audit, usedUUIDs, bridge, sent, channel,
                  calls, pending, lastApplied, mcpVars, authVars >>

\* the timer of delayMs fired: attempt++, then the test of the loop
TimerFired ==
  /\ boot.pc = "sleep"
  /\ boot' = forLoopTest([boot EXCEPT !.attempt = @ + 1,
                                      !.slept = @ + boot.delayMs])
  /\ UNCHANGED << targets, sessions, audit, usedUUIDs, bridge, sent, channel,
                  calls, pending, lastApplied, mcpVars, authVars >>

BootNext ==
  \/ \E outcome \in {created(Len(boot.creates) + 1)}
                      \cup {rejected(e) : e \in DbErrors} :
       WebshellDbCreate(outcome)
  \/ TimerFired

\* The start of the gateway: every await of createDbWithRetry settles (the
\* pool's connect fails or succeeds in bounded time, the timer fires).
BootSpec == BootInit /\ [][BootNext]_vars /\ WF_vars(BootNext)

\* ------------------------------------------------- gateway: target CRUD
\* a variant that makes up a target for an id the table lacks
loadTargetOrDefault(tbl, id) ==
  [ok |-> TRUE,
   target |-> IF id \in DOMAIN tbl THEN tbl[id]
              ELSE [id |-> id, host |-> "10.0.0.5", port |-> DefaultPort,
                    username |-> "root", name |-> Null]]

\* const loadTargetOrThrow = async (id) => db.getTarget(id) or throw
loadTargetOrThrow(tbl, id) ==
  IF id \in DOMAIN tbl THEN [ok |-> TRUE, target |-> tbl[id]]
  ELSE [ok |-> FALSE, target |-> Null]

\* the row app.post('/api/targets') builds from a body that gives id, host,
\* username and name and no port: trimmed fields, port 22, name || null
postTargetRow(body) ==
  LET name == trim(body.name)
  IN WebshellTargetRow(trim(body.id), body.host, DefaultPort, "root",
                       IF name = EmptyStr THEN Null ELSE <<name>>)

\* app.post('/api/targets'): 400 without an id, else insert, or update when
\* the id exists
PostTarget(body) ==
  LET row == postTargetRow(body)
  IN /\ targets' = IF row.id = EmptyStr THEN targets
                   ELSE [k \in DOMAIN targets \cup {row.id} |->
                           IF k = row.id THEN row ELSE targets[k]]
     /\ UNCHANGED << sessions, audit, usedUUIDs, bridge, sent, pending, lastApplied >>
     /\ UNCHANGED << channel, calls, boot, mcpVars, authVars >>

\* a variant that carries the new host into the session rows of the target
PutTargetRewritesHistory(id, host) ==
  /\ id \in DOMAIN targets
  /\ targets' = [targets EXCEPT ![id].host = IF host = "" THEN @ ELSE host]
  /\ audit' = [k \in DOMAIN audit |->
                 IF audit[k].targetId = id /\ host # ""
                 THEN [audit[k] EXCEPT !.host = host] ELSE audit[k]]
  /\ UNCHANGED << sessions, usedUUIDs, bridge, sent, pending, lastApplied >>
  /\ UNCHANGED << channel, calls, boot, mcpVars, authVars >>

\* app.put('/api/targets/:id'): 404 when absent, else the supplied
\* non-empty fields replace the stored ones
PutTarget(id, host) ==
  /\ id \in DOMAIN targets
  /\ targets' = [targets EXCEPT ![id].host = IF host = "" THEN @ ELSE host]
  /\ UNCHANGED << sessions, audit, usedUUIDs, bridge, sent, pending, lastApplied >>
  /\ UNCHANGED << channel, calls, boot, mcpVars, authVars >>

\* app.delete('/api/targets/:id')
DeleteTarget(id) ==
  /\ id \in DOMAIN targets
  /\ targets' = [k \in DOMAIN targets \ {id} |-> targets[k]]
  /\ UNCHANGED << sessions, audit, usedUUIDs, bridge, sent, pending, lastApplied >>
  /\ UNCHANGED << channel, calls, boot, mcpVars, authVars >>

\* --------------------------------------------- gateway: POST /api/session
\* a variant that keeps the newest handle only
sessionsSetNewestOnly(map, id, info) == [k \in {id} |-> info]

\* sessions.set(id, sessionInfo)
sessionsSet(map, id, info) ==
  [k \in DOMAIN map \cup {id} |-> IF k = id THEN info ELSE map[k]]

\* app.get('/session/:id'): the status of the response
sessionPage(map, id) == IF id \in DOMAIN map THEN 200 ELSE 404

\* The response of POST /api/session: targetId is the trimmed body.targetId,
\* insertOk the outcome of await db.createSession(history).  200 carries the
\* sessionUrl, which ends in the new id.
sessionResponse(bodyTargetId, insertOk) ==
  IF trim(bodyTargetId) = EmptyStr THEN [status |-> 400, id |-> Null]
  ELSE IF ~loadTargetOrThrow(targets, trim(bodyTargetId)).ok
    THEN [status |-> 500, id |-> Null]
  ELSE IF ~insertOk THEN [status |-> 500, id |-> Null]
  ELSE [status |-> 200, id |-> <<randomUUID(usedUUIDs)>>]

\* app.post('/api/session'), on the state of the gateway
ApiSession(bodyTargetId, reason, insertOk) ==
  IF trim(bodyTargetId) = EmptyStr
       \/ ~loadTargetOrThrow(targets, trim(bodyTargetId)).ok
  THEN UNCHANGED gwVars
  ELSE
    /\ Cardinality(usedUUIDs) < MaxSessions
    /\ LET target == loadTargetOrThrow(targets, trim(bodyTargetId)).target
           id == randomUUID(usedUUIDs)
           sessionInfo == [id |-> id, targetId |-> target.id,
                           reason |-> reason, createdAt |-> <<"create", id>>]
           history == createSessionHistoryRow(id, target, reason)
       IN /\ usedUUIDs' = usedUUIDs \cup {id}
          /\ sessions' = sessionsSet(sessions, id, sessionInfo)
          /\ audit' = IF insertOk THEN dbCreateSession(audit, history) ELSE audit
    /\ UNCHANGED << targets, bridge, sent, channel, calls, pending, lastApplied, boot >>

\* POST /api/session from a client of the gateway other than the MCP server
CreateSession(bodyTargetId, reason, insertOk) ==
  /\ ApiSession(bodyTargetId, reason, insertOk)
  /\ UNCHANGED << channel, calls, boot, mcpVars, authVars >>

\* ------------------------------------------- gateway: wss.on('connection')
\* const info = sessions.get(sessionId), held by the handlers of connection c
infoOf(c) == bridge[c].info[1]

\* the update one handler of connection c issues:
\* db.updateSessionEndTime(info.id, new Date(), status)
finalizeWrite(c, handler, status) ==
  [conn |-> c, id |-> infoOf(c).id, endTime |-> <<handler>>, status |-> status]

\* db.updateSessionEndTime(...).catch(() => {}): issued, not awaited
finalize(c, handler, status) ==
  pending' = pending \cup {finalizeWrite(c, handler, status)}

\* a variant that leaves the socket as it is
socketCloseForgotten(st) == st

\* socket.close(): only an OPEN socket starts the closing handshake
socketClose(st) == IF st = "OPEN" THEN "CLOSING" ELSE st

\* a variant that leaves the client connected
sshEndForgotten(st) == st

\* ssh.end()
sshEnd(st) == IF st \in {"connecting", "ready"} THEN "ended" ELSE st

\* the shell channel of a client that ended: there is none
shellEnd(st) == "none"

\* A connection whose socket is CLOSED, whose ssh client is closed or was
\* never created, and whose updates have all executed has no further events.
Finished(c) ==
  /\ bridge[c].phase \in {"rejected", "aborted", "bridging"}
  /\ bridge[c].sock = "CLOSED"
  /\ bridge[c].ssh \in {"none", "ended"}
  /\ \A w \in pending : w.conn # c

\* A new WebSocket connection takes a slot that is idle or Finished.
Free(c) == bridge[c].phase = "idle" \/ Finished(c)

\* the connection handler up to its first await
Attach(c, h) ==
  /\ Free(c)
  /\ \A d \in Slots : d < c => bridge[d].phase # "idle"
  /\ bridge' = [bridge EXCEPT ![c] =
       IF h \in DOMAIN sessions
       THEN [IdleBridge EXCEPT !.phase = "loading", !.info = <<sessions[h]>>,
                               !.sock = "OPEN"]
       ELSE [IdleBridge EXCEPT !.phase = "rejected", !.sock = socketClose("OPEN")]]
  /\ sent' = [sent EXCEPT ![c] = << >>]
  /\ channel' = [channel EXCEPT ![c] = IdleChannel]
  /\ UNCHANGED << targets, sessions, audit, usedUUIDs, pending, lastApplied >>
  /\ UNCHANGED << calls, boot, mcpVars, authVars >>

\* await loadTargetOrThrow(info.targetId) returns or throws; on return the
\* ssh handlers are registered, ssh.connect is called and socket.on('close')
\* is registered, all in one synchronous block
LoadTarget(c) ==
  /\ bridge[c].phase = "loading"
  /\ LET r == loadTargetOrThrow(targets, infoOf(c).targetId)
     IN bridge' = [bridge EXCEPT ![c] =
          IF r.ok
          THEN [@ EXCEPT !.phase = "bridging", !.ssh = "connecting",
                         !.onClose = TRUE,
                         !.connect = <<[host |-> r.target.host,
                                        port |-> r.target.port,
                                        username |-> r.target.username]>>]
          ELSE [@ EXCEPT !.phase = "aborted", !.sock = socketClose(@)]]
  /\ UNCHANGED << targets, sessions, audit, usedUUIDs, sent, pending, lastApplied >>
  /\ UNCHANGED << channel, calls, boot, mcpVars, authVars >>

\* a variant whose close handler does not finalize
socketOnCloseNoFinalize(c) ==
  /\ bridge' = [bridge EXCEPT ![c].sock = "CLOSED", ![c].ssh = sshEnd(@),
                              ![c].shell = shellEnd(@)]
  /\ UNCHANGED pending

\* the socket's 'close' event; socket.on('close'), when registered, runs
\* ssh.end() and finalize(disconnected)
socketOnClose(c) ==
  IF bridge[c].onClose
  THEN /\ bridge' = [bridge EXCEPT ![c].sock = "CLOSED", ![c].ssh = sshEnd(@),
                                   ![c].shell = shellEnd(@)]
       /\ finalize(c, "onClose", "disconnected")
  ELSE /\ bridge' = [bridge EXCEPT ![c].sock = "CLOSED"]
       /\ UNCHANGED pending

\* the caller closes its transport (browser navigates away, network drop)
CallerClose(c) ==
  /\ bridge[c].sock = "OPEN"
  /\ socketOnClose(c)
  /\ UNCHANGED << targets, sessions, audit, usedUUIDs, sent, lastApplied >>
  /\ UNCHANGED << channel, calls, boot, mcpVars, authVars >>

\* the closing handshake started by socket.close() ends
CloseDone(c) ==
  /\ bridge[c].sock = "CLOSING"
  /\ socketOnClose(c)
  /\ UNCHANGED << targets, sessions, audit, usedUUIDs, sent, lastApplied >>
  /\ UNCHANGED << channel, calls, boot, mcpVars, authVars >>

\* ssh.on('ready'): ssh.shell(callback)
SshReady(c) ==
  /\ bridge[c].ssh = "connecting"
  /\ bridge' = [bridge EXCEPT ![c].ssh = "ready", ![c].shell = "requested"]
  /\ UNCHANGED << targets, sessions, audit, usedUUIDs, sent, pending, lastApplied >>
  /\ UNCHANGED << channel, calls, boot, mcpVars, authVars >>

\* the ssh.shell callback without err: the stream and message handlers are
\* registered
ShellOpened(c) ==
  /\ bridge[c].ssh = "ready"
  /\ bridge[c].shell = "requested"
  /\ bridge' = [bridge EXCEPT ![c].shell = "open"]
  /\ UNCHANGED << targets, sessions, audit, usedUUIDs, sent, pending, lastApplied >>
  /\ UNCHANGED << channel, calls, boot, mcpVars, authVars >>

\* a variant that sends nothing
socketSendDropped(c, msg) == UNCHANGED sent

\* socket.send(msg): only an OPEN socket transmits
socketSend(c, msg) ==
  sent' = [sent EXCEPT ![c] = IF bridge[c].sock = "OPEN" THEN Append(@, msg) ELSE @]

\* the ssh.shell callback with err
ShellFailed(c) ==
  /\ bridge[c].ssh = "ready"
  /\ bridge[c].shell = "requested"
  /\ socketSend(c, ShellFailedMsg)
  /\ bridge' = [bridge EXCEPT ![c].sock = socketClose(@), ![c].ssh = sshEnd(@),
                              ![c].shell = shellEnd(@)]
  /\ finalize(c, "onShellError", "error")
  /\ UNCHANGED << targets, sessions, audit, usedUUIDs, lastApplied >>
  /\ UNCHANGED << channel, calls, boot, mcpVars, authVars >>

\* a variant that connects again after an error
SshErrorReconnects(c) ==
  /\ bridge[c].ssh \in {"connecting", "ready"}
  /\ IF bridge[c].sock = "OPEN" THEN socketSend(c, ConnectFailedMsg)
     ELSE UNCHANGED sent
  /\ bridge' = [bridge EXCEPT ![c].ssh = "connecting", ![c].shell = "none"]
  /\ finalize(c, "onError", "error")
  /\ UNCHANGED << targets, sessions, audit, usedUUIDs, lastApplied >>
  /\ UNCHANGED << channel, calls, boot, mcpVars, authVars >>

\* ssh.on('error')
SshError(c) ==
  /\ bridge[c].ssh \in {"connecting", "ready"}
  /\ IF bridge[c].sock = "OPEN" THEN socketSend(c, ConnectFailedMsg)
     ELSE UNCHANGED sent
  /\ bridge' = [bridge EXCEPT ![c].sock = socketClose(@), ![c].ssh = sshEnd(@),
                              ![c].shell = shellEnd(@)]
  /\ finalize(c, "onError", "error")
  /\ UNCHANGED << targets, sessions, audit, usedUUIDs, lastApplied >>
  /\ UNCHANGED << channel, calls, boot, mcpVars, authVars >>

\* ssh.on('close') of a connection the remote host dropped
SshClose(c) ==
  /\ bridge[c].ssh = "ready"
  /\ bridge' = [bridge EXCEPT ![c].ssh = "ended", ![c].sock = socketClose(@),
                              ![c].shell = shellEnd(@)]
  /\ UNCHANGED << targets, sessions, audit, usedUUIDs, sent, pending, lastApplied >>
  /\ UNCHANGED << channel, calls, boot, mcpVars, authVars >>

\* stream.on('close'): the remote end closed the shell channel
StreamClose(c) ==
  /\ bridge[c].ssh = "ready"
  /\ bridge[c].shell = "open"
  /\ bridge' = [bridge EXCEPT ![c].shell = "closed", ![c].sock = socketClose(@)]
  /\ UNCHANGED << targets, sessions, audit, usedUUIDs, sent, pending, lastApplied >>
  /\ UNCHANGED << channel, calls, boot, mcpVars, authVars >>

\* the store executes one issued finalize update
ApplyWrite(w) ==
  /\ w \in pending
  /\ audit' = updateSessionEndTime(audit, w.id, w.endTime, w.status)
  /\ pending' = pending \ {w}
  /\ lastApplied' = [k \in DOMAIN lastApplied \cup {w.id} |->
                       IF k = w.id THEN [endTime |-> w.endTime, status |-> w.status]
                       ELSE lastApplied[k]]
  /\ UNCHANGED << targets, sessions, usedUUIDs, bridge, sent >>
  /\ UNCHANGED << channel, calls, boot, mcpVars, authVars >>

Next ==
  \/ \E body \in TargetBodies : PostTarget(body)
  \/ \E id \in TargetIds : DeleteTarget(id)
  \/ \E tid \in BodyTargetIds, reason \in Reasons :
       CreateSession(tid, reason, TRUE)
  \/ \E c \in Conns, h \in UUIDs : Attach(c, h)
  \/ \E c \in Conns : LoadTarget(c)
  \/ \E c \in Conns : CallerClose(c)
  \/ \E c \in Conns : CloseDone(c)
  \/ \E c \in Conns : SshReady(c)
  \/ \E c \in Conns : ShellOpened(c)
  \/ \E c \in Conns : ShellFailed(c)
  \/ \E c \in Conns : SshError(c)
  \/ \E c \in Conns : SshClose(c)
  \/ \E c \in Conns : StreamClose(c)
  \/ \E w \in pending : ApplyWrite(w)

Spec == Init /\ [][Next]_vars

\* Every finalize update a handler can issue.
AllWrites ==
  { [conn |-> c, id |-> id, endTime |-> <<hs[1]>>, status |-> hs[2]] :
      c \in Slots, id \in UUIDs,
      hs \in { <<"onClose", "disconnected">>, <<"onError", "error">>,
               <<"onShellError", "error">> } }

\* The closing handshake a socket.close() started ends (ws ends it itself
\* when the peer does not answer), and the store executes every update it
\* was sent.  Nothing obliges a caller to close, a remote host to answer, or
\* a request to arrive.
FairSpec ==
  /\ Spec
  /\ \A c \in Slots : WF_vars(CloseDone(c))
  /\ \A w \in AllWrites : WF_vars(ApplyWrite(w))

\* The gateway with a store that can fail the INSERT of db.createSession.
InsertFailNext ==
  \/ Next
  \/ \E tid \in BodyTargetIds, reason \in Reasons : CreateSession(tid, reason, FALSE)

InsertFailSpec == Init /\ [][InsertFailNext]_vars

\* POST /api/session with the response the client receives kept in reply
PostApiSession(bodyTargetId, reason, insertOk) ==
  /\ ApiSession(bodyTargetId, reason, insertOk)
  /\ reply' = <<[tool |-> "POST /api/session", body |-> bodyTargetId,
                 status |-> sessionResponse(bodyTargetId, insertOk).status]>>
  /\ UNCHANGED << mcpCall, recentSessions, recentHistory, authVars >>

SessionApiNext ==
  \/ Next
  \/ \E tid \in BodyTargetIds, reason \in Reasons : PostApiSession(tid, reason, TRUE)

\* The gateway with the responses of POST /api/session observed.
SessionApiSpec == Init /\ [][SessionApiNext]_vars

\* ------------------------------------------- gateway: the bridged bytes
\* Buffer.prototype.toString('utf8'): the characters the bytes encode, with
\* U+FFFD for every byte that is not part of a complete sequence
RECURSIVE toStringUtf8(_)
toStringUtf8(bytes) ==
  IF bytes = << >> THEN << >>
  ELSE IF bytes[1] = "61" THEN <<"a">> \o toStringUtf8(Tail(bytes))
  ELSE IF bytes[1] = "C3" /\ Len(bytes) >= 2 /\ bytes[2] = "A9"
    THEN <<"U+00E9">> \o toStringUtf8(Tail(Tail(bytes)))
  ELSE <<"U+FFFD">> \o toStringUtf8(Tail(bytes))

\* the payload of the text frame socket.send(string) transmits: the UTF-8
\* encoding of the string
RECURSIVE utf8(_)
utf8(str) ==
  IF str = << >> THEN << >>
  ELSE (CASE str[1] = "a" -> <<"61">>
          [] str[1] = "U+00E9" -> <<"C3", "A9">>
          [] OTHER -> <<"EF", "BF", "BD">>) \o utf8(Tail(str))

\* a variant that hands the chunk to every socket
StreamDataBroadcast(c, data) ==
  /\ bridge[c].shell = "open"
  /\ Len(channel[c].emitted) < MaxChunks
  /\ sent' = [d \in Slots |->
               IF bridge[d].sock = "OPEN" THEN Append(sent[d], toStringUtf8(data))
               ELSE sent[d]]
  /\ channel' = [channel EXCEPT ![c].emitted =
                   Append(@, [data |-> data, open |-> bridge[c].sock = "OPEN"])]
  /\ UNCHANGED << targets, sessions, audit, usedUUIDs, bridge, pending, lastApplied >>
  /\ UNCHANGED << calls, boot, mcpVars, authVars >>

\* a variant that sends whatever the state of the socket
StreamDataUnguarded(c, data) ==
  /\ bridge[c].shell = "open"
  /\ Len(channel[c].emitted) < MaxChunks
  /\ sent' = [sent EXCEPT ![c] = Append(@, toStringUtf8(data))]
  /\ channel' = [channel EXCEPT ![c].emitted =
                   Append(@, [data |-> data, open |-> bridge[c].sock = "OPEN"])]
  /\ UNCHANGED << targets, sessions, audit, usedUUIDs, bridge, pending, lastApplied >>
  /\ UNCHANGED << calls, boot, mcpVars, authVars >>

\* stream.on('data'): if (socket.readyState === socket.OPEN)
\*   socket.send(data.toString('utf8'))
StreamData(c, data) ==
  /\ bridge[c].shell = "open"
  /\ Len(channel[c].emitted) < MaxChunks
  /\ IF bridge[c].sock = "OPEN" THEN socketSend(c, toStringUtf8(data))
     ELSE UNCHANGED sent
  /\ channel' = [channel EXCEPT ![c].emitted =
                   Append(@, [data |-> data, open |-> bridge[c].sock = "OPEN"])]
  /\ UNCHANGED << targets, sessions, audit, usedUUIDs, bridge, pending, lastApplied >>
  /\ UNCHANGED << calls, boot, mcpVars, authVars >>

\* the socket's 'message' event.  socket.on('message') is registered in the
\* ssh.shell callback; an event emitted before that has no listener.  The
\* listener: stream.write(message) for a Buffer and for a string
SocketMessage(c, message) ==
  /\ bridge[c].sock = "OPEN"
  /\ Len(channel[c].messages) < MaxChunks
  /\ LET listening == bridge[c].shell = "open"
     IN channel' = [channel EXCEPT
          ![c].messages = Append(@, [message |-> message, listening |-> listening]),
          ![c].written = IF listening /\ message.type \in {"Buffer", "string"}
                         THEN Append(@, message) ELSE @]
  /\ UNCHANGED << targets, sessions, audit, usedUUIDs, bridge, sent, pending,
                  lastApplied >>
  /\ UNCHANGED << calls, boot, mcpVars, authVars >>

\* the caller's close frame arrives: ws sets readyState to CLOSING; the
\* 'close' event follows when the connection has ended (CloseDone)
CloseFrame(c) ==
  /\ bridge[c].sock = "OPEN"
  /\ bridge' = [bridge EXCEPT ![c].sock = "CLOSING"]
  /\ UNCHANGED << targets, sessions, audit, usedUUIDs, sent, channel, pending,
                  lastApplied >>
  /\ UNCHANGED << calls, boot, mcpVars, authVars >>

\* the gateway after POST /api/targets and POST /api/session: one target and
\* one session of it
AttachedInit ==
  \E body \in TargetBodies, reason \in Reasons :
    LET target == postTargetRow(body)
        id == randomUUID({})
        sessionInfo == [id |-> id, targetId |-> target.id,
                        reason |-> reason, createdAt |-> <<"create", id>>]
    IN /\ targets = (target.id :> target)
       /\ sessions = sessionsSet(<< >>, id, sessionInfo)
       /\ audit = dbCreateSession(<< >>, createSessionHistoryRow(id, target, reason))
       /\ usedUUIDs = {id}
       /\ bridge = [c \in Slots |-> IdleBridge]
       /\ sent = [c \in Slots |-> << >>]
       /\ channel = [c \in Slots |-> IdleChannel]
       /\ calls = [r \in Requesters |-> IdleCall]
       /\ pending = {}
       /\ lastApplied = << >>
       /\ boot = Started
       /\ mcpCall = Null
       /\ reply = Null
       /\ recentSessions = << >>
       /\ recentHistory = << >>
       /\ authSessions = << >>
       /\ now = 0
       /\ getCall = [k \in Callers |-> IdleGet]
       /\ lastPrune = Null

\* the handlers of the connections of C and the events of their sockets,
\* ssh clients and shell channels
BridgeNext(C) ==
  \/ \E c \in C, h \in UUIDs : Attach(c, h)
  \/ \E c \in C : LoadTarget(c)
  \/ \E c \in C : CallerClose(c)
  \/ \E c \in C : CloseFrame(c)
  \/ \E c \in C : CloseDone(c)
  \/ \E c \in C : SshReady(c)
  \/ \E c \in C : ShellOpened(c)
  \/ \E c \in C : ShellFailed(c)
  \/ \E c \in C : SshError(c)
  \/ \E c \in C : SshClose(c)
  \/ \E c \in C : StreamClose(c)
  \/ \E w \in pending : ApplyWrite(w)

DataNext ==
  \/ BridgeNext(Conns)
  \/ \E c \in Conns, data \in Chunks : StreamData(c, data)
  \/ \E c \in Conns, message \in Messages : SocketMessage(c, message)

\* One session and the bytes its bridges carry.
DataSpec == AttachedInit /\ [][DataNext]_vars

\* here a shell channel emits one chunk and the callers send nothing
PairNext ==
  \/ BridgeNext(Slots)
  \/ \E c \in Slots, data \in Chunks :
       channel[c].emitted = << >> /\ StreamData(c, data)

\* One session and one connection more than the other specifications have,
\* so that two bridges of the same session are up at once.
PairSpec == AttachedInit /\ [][PairNext]_vars

WideNext ==
  \/ Next
  \/ BridgeNext(Slots)

\* The gateway with one connection more than Spec, so that bridges of
\* different sessions are up, and finalize, at once.
WideSpec == Init /\ [][WideNext]_vars

\* ------------------------------- gateway: target requests, step by step
\* db.getTarget(id): list[0] of SELECT ... WHERE id = ?
getTarget(tbl, id) == IF id \in DOMAIN tbl THEN <<tbl[id]>> ELSE Null

\* db.createTarget(row): INSERT INTO targets; id is the primary key, so the
\* statement fails when a row with the id exists
createTarget(tbl, row) ==
  IF row.id \in DOMAIN tbl THEN [ok |-> FALSE, table |-> tbl]
  ELSE [ok |-> TRUE,
        table |-> [k \in DOMAIN tbl \cup {row.id} |->
                     IF k = row.id THEN row ELSE tbl[k]]]

\* db.updateTarget(row): UPDATE targets SET ... WHERE id = ?
updateTarget(tbl, row) ==
  [k \in DOMAIN tbl |-> IF k = row.id THEN row ELSE tbl[k]]

\* const updated = { id, host: host || existing.host, ... }
putTargetRow(id, body, existing) ==
  [id |-> id,
   host |-> IF body.host # "" THEN body.host ELSE existing.host,
   port |-> existing.port,
   username |-> IF body.username # "" THEN body.username ELSE existing.username,
   name |-> existing.name]

\* app.put('/api/targets/:id') up to the return of await db.getTarget(id):
\* 404 when there is no row
PutTargetGet(r, id, body) ==
  /\ calls[r].phase = "idle"
  /\ LET existing == getTarget(targets, id)
     IN calls' = [calls EXCEPT ![r] =
          IF existing = Null
          THEN [IdleCall EXCEPT !.phase = "done", !.op = "put", !.id = id,
                                !.body = <<body>>, !.status = 404]
          ELSE [IdleCall EXCEPT !.phase = "write", !.op = "put", !.id = id,
                                !.body = <<body>>, !.existing = existing]]
  /\ UNCHANGED << targets, sessions, audit, usedUUIDs, bridge, sent, channel,
                  pending, lastApplied >>
  /\ UNCHANGED << boot, mcpVars, authVars >>

\* app.put('/api/targets/:id') from there: await db.updateTarget(updated)
PutTargetUpdate(r) ==
  /\ calls[r].phase = "write"
  /\ calls[r].op = "put"
  /\ targets' = updateTarget(targets, putTargetRow(calls[r].id, calls[r].body[1],
                                                   calls[r].existing[1]))
  /\ calls' = [calls EXCEPT ![r].phase = "done", ![r].status = 200]
  /\ UNCHANGED << sessions, audit, usedUUIDs, bridge, sent, channel, pending,
                  lastApplied >>
  /\ UNCHANGED << boot, mcpVars, authVars >>

\* app.post('/api/targets') up to the return of await db.getTarget(id)
PostTargetGet(r, body) ==
  /\ calls[r].phase = "idle"
  /\ LET row == postTargetRow(body)
     IN calls' = [calls EXCEPT ![r] =
          IF row.id = EmptyStr
          THEN [IdleCall EXCEPT !.phase = "done", !.op = "post", !.id = row.id,
                                !.body = <<body>>, !.status = 400]
          ELSE [IdleCall EXCEPT !.phase = "write", !.op = "post", !.id = row.id,
                                !.body = <<body>>,
                                !.existing = getTarget(targets, row.id)]]
  /\ UNCHANGED << targets, sessions, audit, usedUUIDs, bridge, sent, channel,
                  pending, lastApplied >>
  /\ UNCHANGED << boot, mcpVars, authVars >>

\* app.post('/api/targets') from there: updateTarget when a row was found,
\* else createTarget; 201, or 500 when the statement threw
PostTargetWrite(r) ==
  /\ calls[r].phase = "write"
  /\ calls[r].op = "post"
  /\ LET row == postTargetRow(calls[r].body[1])
         inserted == createTarget(targets, row)
     IN IF calls[r].existing # Null
        THEN /\ targets' = updateTarget(targets, row)
             /\ calls' = [calls EXCEPT ![r].phase = "done", ![r].status = 201]
        ELSE /\ targets' = inserted.table
             /\ calls' = [calls EXCEPT ![r].phase = "done",
                                       ![r].status = IF inserted.ok THEN 201 ELSE 500]
  /\ UNCHANGED << sessions, audit, usedUUIDs, bridge, sent, channel, pending,
                  lastApplied >>
  /\ UNCHANGED << boot, mcpVars, authVars >>

CrudNext ==
  \/ \E r \in Requesters, id \in PutIds, body \in PutBodies : PutTargetGet(r, id, body)
  \/ \E r \in Requesters : PutTargetUpdate(r)
  \/ \E r \in Requesters, body \in PostBodies \cup TargetBodies : PostTargetGet(r, body)
  \/ \E r \in Requesters : PostTargetWrite(r)

\* One request of each client of the target API, their statements
\* interleaved, on a registry that holds target 'a'.
CrudSpec == AttachedInit /\ [][CrudNext]_vars

\* The gateway with its targets edited through PUT /api/targets/:id.
EditNext ==
  \/ Next
  \/ \E id \in TargetIds, host \in Hosts : PutTarget(id, host)

EditSpec == Init /\ [][EditNext]_vars

\* a variant that rebuilds the Map from the rows of the sessions table
RestartRestoresSessions ==
  /\ sessions' = [id \in DOMAIN audit |->
                    [id |-> id, targetId |-> audit[id].targetId,
                     reason |-> "", createdAt |-> audit[id].startTime]]
  /\ bridge' = [c \in Slots |-> IdleBridge]
  /\ sent' = [c \in Slots |-> << >>]
  /\ channel' = [c \in Slots |-> IdleChannel]
  /\ pending' = {}
  /\ UNCHANGED << targets, audit, usedUUIDs, lastApplied >>
  /\ UNCHANGED << calls, boot, mcpVars, authVars >>

\* The gateway process ends and startWebshellGateway runs again: the Map is
\* new and empty, the sockets and ssh clients of the old process are gone
\* with their handlers, and the updates it had issued and the store had not
\* yet received are lost.  The tables stay as they are.
Restart ==
  /\ sessions' = << >>
  /\ bridge' = [c \in Slots |-> IdleBridge]
  /\ sent' = [c \in Slots |-> << >>]
  /\ channel' = [c \in Slots |-> IdleChannel]
  /\ pending' = {}
  /\ UNCHANGED << targets, audit, usedUUIDs, lastApplied >>
  /\ UNCHANGED << calls, boot, mcpVars, authVars >>

RestartNext ==
  \/ Next
  \/ Restart

\* The gateway over any number of process restarts.
RestartSpec == Init /\ [][RestartNext]_vars

\* ----------------------------------------------- db.ts: listTargets
\* the order of the id column, on the alphabet of the model
charRank(ch) ==
  CASE ch = " " -> 0
    [] ch \in {"a", "A"} -> 1
    [] ch \in {"b", "B"} -> 2
    [] OTHER -> 3

RECURSIVE strLess(_, _)
strLess(s, t) ==
  IF s = EmptyStr THEN t # EmptyStr
  ELSE IF t = EmptyStr THEN FALSE
  ELSE IF charRank(Head(s)) # charRank(Head(t))
    THEN charRank(Head(s)) < charRank(Head(t))
  ELSE strLess(Tail(s), Tail(t))

RECURSIVE sortedIds(_)
sortedIds(S) ==
  IF S = {} THEN << >>
  ELSE LET m == CHOOSE x \in S : \A y \in S \ {x} : strLess(x, y)
       IN <<m>> \o sortedIds(S \ {m})

\* SELECT ... FROM targets ORDER BY id
listTargets(tbl) ==
  LET ids == sortedIds(DOMAIN tbl)
  IN [i \in 1..Len(ids) |-> tbl[ids[i]]]

\* ------------------------------------------------- MCP server (index.ts)
\* a variant that hands on the rows of GET /api/targets as they come
fetchWebshellTargetsWholeRows(tbl) == listTargets(tbl)

\* fetchWebshellTargets: GET /api/targets, each row reduced to an
\* SSHWebshellTarget; a name that is not a non-empty string is left out
fetchWebshellTargets(tbl) ==
  LET rows == listTargets(tbl)
  IN [i \in 1..Len(rows) |->
        [id |-> rows[i].id,
         name |-> IF rows[i].name # Null /\ rows[i].name[1] # EmptyStr
                  THEN rows[i].name ELSE Null,
         host |-> rows[i].host,
         port |-> rows[i].port,
         username |-> rows[i].username]]

\* t.name && t.name !== t.id ? `${t.name} (${t.id})` : t.id
displayName(t) ==
  IF t.name # Null /\ t.name[1] # t.id
  THEN t.name[1] \o <<" ", "(">> \o t.id \o <<")">>
  ELSE t.id

\* list.map(displayName).join(', ')
RECURSIVE names(_)
names(list) ==
  IF list = << >> THEN EmptyStr
  ELSE IF Len(list) = 1 THEN displayName(list[1])
  ELSE displayName(Head(list)) \o <<",", " ">> \o names(Tail(list))

nameLower(t) == IF t.name = Null THEN EmptyStr ELSE toLowerCase(t.name[1])

\* a variant that takes containing the hint for equalling it
isExactLoose(t, lowered) ==
  \/ includes(toLowerCase(t.id), lowered)
  \/ (nameLower(t) # EmptyStr /\ includes(nameLower(t), lowered))

isExact(t, lowered) ==
  \/ toLowerCase(t.id) = lowered
  \/ (nameLower(t) # EmptyStr /\ nameLower(t) = lowered)

isPartial(t, lowered) ==
  /\ ~isExact(t, lowered)
  /\ \/ includes(toLowerCase(t.id), lowered)
     \/ (nameLower(t) # EmptyStr /\ includes(nameLower(t), lowered))

exactMatches(list, lowered) == SelectSeq(list, LAMBDA t : isExact(t, lowered))

partialMatches(list, lowered) == SelectSeq(list, LAMBDA t : isPartial(t, lowered))

\* a variant that keeps the partial matches next to the exact ones
candidatesMerged(list, lowered) ==
  exactMatches(list, lowered) \o partialMatches(list, lowered)

\* a variant that prefers the substring tier
candidatesPartialFirst(list, lowered) ==
  IF partialMatches(list, lowered) # << >> THEN partialMatches(list, lowered)
  ELSE exactMatches(list, lowered)

\* exactMatches.length > 0 ? exactMatches : partialMatches
candidates(list, lowered) ==
  IF exactMatches(list, lowered) # << >> THEN exactMatches(list, lowered)
  ELSE partialMatches(list, lowered)

resolved(t) == [kind |-> "ok", target |-> <<t>>, names |-> EmptyStr]
failed(kind, listed) == [kind |-> kind, target |-> Null, names |-> listed]

\* a variant whose errors both list the whole registry
openSshTerminalResolveWholeList(list, targetHint) ==
  LET hint == trim(targetHint)
      c == candidates(list, toLowerCase(hint))
  IN IF hint = EmptyStr THEN failed("ValidationError", EmptyStr)
     ELSE IF list = << >> THEN failed("NoTargets", EmptyStr)
     ELSE IF Len(c) = 1 THEN resolved(c[1])
     ELSE IF c = << >> THEN failed("NotFound", names(list))
     ELSE failed("Ambiguous", names(list))

\* a variant whose errors both list the candidates
openSshTerminalResolveCandidatesOnly(list, targetHint) ==
  LET hint == trim(targetHint)
      c == candidates(list, toLowerCase(hint))
  IN IF hint = EmptyStr THEN failed("ValidationError", EmptyStr)
     ELSE IF list = << >> THEN failed("NoTargets", EmptyStr)
     ELSE IF Len(c) = 1 THEN resolved(c[1])
     ELSE IF c = << >> THEN failed("NotFound", names(c))
     ELSE failed("Ambiguous", names(c))

\* open_ssh_terminal, from the hint to the chosen target or the error thrown
openSshTerminalResolve(list, targetHint) ==
  LET hint == trim(targetHint)
      c == candidates(list, toLowerCase(hint))
  IN IF hint = EmptyStr THEN failed("ValidationError", EmptyStr)
     ELSE IF list = << >> THEN failed("NoTargets", EmptyStr)
     ELSE IF Len(c) = 1 THEN resolved(c[1])
     ELSE IF c = << >> THEN failed("NotFound", names(list))
     ELSE failed("Ambiguous", names(c))

\* targets.find((t) => t.id === tid || (typeof t.name === 'string' && t.name === tid))
find(list, tid) ==
  LET m == SelectSeq(list, LAMBDA t : t.id = tid \/ t.name = <<tid>>)
  IN IF m = << >> THEN Null ELSE <<m[1]>>

\* a variant that takes the first target whenever none is named
createSshWebTerminalResolveFirst(list, targetId) ==
  IF targetId # Null /\ trim(targetId[1]) # EmptyStr
  THEN LET found == find(list, trim(targetId[1]))
       IN IF found = Null THEN failed("NotFound", names(list))
          ELSE resolved(found[1])
  ELSE IF Len(list) >= 1 THEN resolved(list[1])
  ELSE failed("NoTargets", EmptyStr)

\* create_ssh_web_terminal; targetId is optional
createSshWebTerminalResolve(list, targetId) ==
  IF targetId # Null /\ trim(targetId[1]) # EmptyStr
  THEN LET found == find(list, trim(targetId[1]))
       IN IF found = Null THEN failed("NotFound", names(list))
          ELSE resolved(found[1])
  ELSE IF Len(list) = 1 THEN resolved(list[1])
  ELSE IF Len(list) > 1 THEN failed("ValidationError", names(list))
  ELSE failed("NoTargets", EmptyStr)

\* app.post('/ui/session'): 400 without a targetId, 400 when none is found
uiSessionResolve(list, targetId) ==
  IF targetId = Null \/ targetId[1] = EmptyStr
  THEN failed("ValidationError", EmptyStr)
  ELSE LET found == find(list, trim(targetId[1]))
       IN IF found = Null THEN failed("NotFound", names(list))
          ELSE resolved(found[1])

\* A handler up to its await of createWebshellSession: it throws, or goes on
\* with the target it chose.
StartCall(tool, query, r, reason) ==
  /\ mcpCall = Null
  /\ IF r.kind = "ok"
     THEN /\ mcpCall' = <<[tool |-> tool, query |-> query,
                           target |-> r.target[1], reason |-> reason]>>
          /\ reply' = Null
     ELSE /\ mcpCall' = Null
          /\ reply' = <<[tool |-> tool, query |-> query, kind |-> r.kind,
                         names |-> r.names, sessionUrl |-> Null]>>
  /\ UNCHANGED << gwVars, recentSessions, recentHistory, authVars >>

OpenSshTerminal(targetHint, reason) ==
  StartCall("open_ssh_terminal", <<targetHint>>,
            openSshTerminalResolve(fetchWebshellTargets(targets), targetHint),
            reason)

CreateSshWebTerminal(targetId, reason) ==
  StartCall("create_ssh_web_terminal", targetId,
            createSshWebTerminalResolve(fetchWebshellTargets(targets), targetId),
            reason)

UiSession(targetId, reason) ==
  StartCall("ui_session", targetId,
            uiSessionResolve(fetchWebshellTargets(targets), targetId),
            reason)

\* the RecentSession createWebshellSession builds from a response
RecentSession(targetId, reason, sessionUrl, createdAt) ==
  [id |-> <<"recent", sessionUrl>>, targetId |-> targetId, reason |-> reason,
   sessionUrl |-> sessionUrl, createdAt |-> createdAt]

\* a variant that never shortens the list
unshiftUncapped(list, session) == <<session>> \o list

\* recentSessions.unshift(session); length capped
unshift(list, session) ==
  LET l == <<session>> \o list
  IN IF Len(l) > RecentSessionsCap THEN SubSeq(l, 1, RecentSessionsCap) ELSE l

\* createWebshellSession(target.id, reason): POST /api/session of the
\* gateway, then the bookkeeping and the reply of the handler
CreateWebshellSession ==
  /\ mcpCall # Null
  /\ LET call == mcpCall[1]
         resp == sessionResponse(call.target.id, TRUE)
     IN /\ ApiSession(call.target.id, call.reason, TRUE)
        /\ IF resp.status = 200
           THEN /\ reply' = <<[tool |-> call.tool, query |-> call.query,
                               kind |-> "ok", names |-> displayName(call.target),
                               sessionUrl |-> resp.id]>>
                /\ LET session == RecentSession(call.target.id, call.reason,
                                                resp.id[1], now)
                   IN /\ recentSessions' = unshift(recentSessions, session)
                      /\ recentHistory' = Append(recentHistory, session)
           ELSE /\ reply' = <<[tool |-> call.tool, query |-> call.query,
                               kind |-> "UpstreamError", names |-> EmptyStr,
                               sessionUrl |-> Null]>>
                /\ UNCHANGED << recentSessions, recentHistory >>
  /\ mcpCall' = Null
  /\ UNCHANGED authVars

\* createWebshellSession(targetId, reason) seen from the MCP server alone:
\* ok is whether the gateway answered 2xx with a sessionUrl (a new one each
\* time) or the call threw
CreateWebshellSessionCall(targetId, reason, ok) ==
  /\ ok => Len(recentHistory) < MaxCreations
  /\ IF ok
     THEN LET sessionUrl == Len(recentHistory) + 1
              session == RecentSession(targetId, reason, sessionUrl, now)
          IN /\ recentSessions' = unshift(recentSessions, session)
             /\ recentHistory' = Append(recentHistory, session)
             /\ reply' = <<[tool |-> "createWebshellSession", kind |-> "ok",
                            sessionUrl |-> <<sessionUrl>>]>>
     ELSE /\ reply' = <<[tool |-> "createWebshellSession",
                         kind |-> "UpstreamError", sessionUrl |-> Null]>>
          /\ UNCHANGED << recentSessions, recentHistory >>
  /\ UNCHANGED << gwVars, mcpCall, authVars >>


\* The registries the target API can have built: ids and names trimmed, an
\* empty name stored as null.
Registries ==
  UNION { { [id \in S |-> postTargetRow([id |-> id, host |-> "10.0.0.5",
                                         name |-> n[id]])] :
              n \in [S -> BodyNames] } :
          S \in { T \in SUBSET IdPool : Cardinality(T) <= MaxTargets } }

ResolveInit == \E registry \in Registries : InitWith(registry)

ResolveNext ==
  \/ \E hint \in Hints, reason \in Reasons : OpenSshTerminal(hint, reason)
  \/ \E tid \in OptTargetIds, reason \in Reasons : CreateSshWebTerminal(tid, reason)
  \/ \E tid \in OptTargetIds, reason \in Reasons : UiSession(tid, reason)
  \/ CreateWebshellSession

\* The MCP server resolving against a registry that does not change.
ResolveSpec == ResolveInit /\ [][ResolveNext]_vars

\* a variant that numbers the entries from 0
listSshTargetsPayloadFromZero(list) ==
  [error |-> Null,
   targets |-> [i \in 1..Len(list) |->
     [index |-> i - 1, id |-> list[i].id,
      name |-> IF list[i].name # Null /\ list[i].name[1] # list[i].id
               THEN list[i].name[1] ELSE list[i].id,
      host |-> list[i].host, port |-> list[i].port,
      username |-> list[i].username]]]

\* list_ssh_targets on the list fetched: list.map((t, index) => ...), an
\* empty list gives { targets: [] }
listSshTargetsPayload(list) ==
  [error |-> Null,
   targets |-> [i \in 1..Len(list) |->
     [index |-> i, id |-> list[i].id,
      name |-> IF list[i].name # Null /\ list[i].name[1] # list[i].id
               THEN list[i].name[1] ELSE list[i].id,
      host |-> list[i].host, port |-> list[i].port,
      username |-> list[i].username]]]

\* the catch block of list_ssh_targets
listSshTargetsFailure(message) ==
  [error |-> <<message>>, targets |-> << >>]

\* list_ssh_targets: fetchOk is whether fetchWebshellTargets returned (the
\* gateway answered 2xx in time with a JSON body) or threw
ListSshTargets(fetchOk) ==
  /\ mcpCall = Null
  /\ reply' = <<[tool |-> "list_ssh_targets", threw |-> FALSE,
                 payload |-> IF fetchOk
                             THEN listSshTargetsPayload(fetchWebshellTargets(targets))
                             ELSE listSshTargetsFailure("fetch-failed")]>>
  /\ UNCHANGED << gwVars, mcpCall, recentSessions, recentHistory, authVars >>

ListNext == \E fetchOk \in BOOLEAN : ListSshTargets(fetchOk)

\* list_ssh_targets against any registry
ListSpec == ResolveInit /\ [][ListNext]_vars

\* ------------------------------------------ targets that hold credentials
\* body.password and body.privateKey of POST /api/targets: absent, or a string
Secrets == { Null, <<"pw1">> }
SecretIds == { <<"a">>, <<"a", "b">> }

\* the row app.post('/api/targets') builds from a body that also gives
\* password and privateKey: password ?? null, privateKey ?? null
postTargetRowWithCredentials(body, password, privateKey) ==
  LET row == postTargetRow(body)
  IN [id |-> row.id, host |-> row.host, port |-> row.port,
      username |-> row.username, password |-> password,
      privateKey |-> privateKey, name |-> row.name]

\* The registries the target API can have built from such bodies.
SecretRegistries ==
  UNION { { [id \in S |-> postTargetRowWithCredentials(
                            [id |-> id, host |-> "10.0.0.5", name |-> n[id]],
                            p[id], k[id])] :
              n \in [S -> BodyNames], p \in [S -> Secrets], k \in [S -> Secrets] } :
          S \in SUBSET SecretIds }

SecretInit == \E registry \in SecretRegistries : InitWith(registry)

\* app.get('/ui/targets'): { targets: list } of fetchWebshellTargets, or 500
UiTargets(fetchOk) ==
  /\ mcpCall = Null
  /\ reply' = <<[tool |-> "GET /ui/targets",
                 status |-> IF fetchOk THEN 200 ELSE 500,
                 targets |-> IF fetchOk THEN fetchWebshellTargets(targets)
                             ELSE << >>]>>
  /\ UNCHANGED << gwVars, mcpCall, recentSessions, recentHistory, authVars >>

SecretNext ==
  \/ \E fetchOk \in BOOLEAN : ListSshTargets(fetchOk)
  \/ \E fetchOk \in BOOLEAN : UiTargets(fetchOk)
  \/ \E hint \in Hints, reason \in Reasons : OpenSshTerminal(hint, reason)
  \/ \E tid \in OptTargetIds, reason \in Reasons : CreateSshWebTerminal(tid, reason)
  \/ \E tid \in OptTargetIds, reason \in Reasons : UiSession(tid, reason)
  \/ CreateWebshellSession

\* The MCP server over a registry whose targets hold passwords and keys.
SecretSpec == SecretInit /\ [][SecretNext]_vars

\* ------------------------------------------- db.ts: auth_sessions table
\* a Date written to a datetime column: the store keeps whole seconds and
\* rounds the half second up
datetime(t) == IF t % 2 = 0 THEN t ELSE t + 1

AuthSessionRow(token, createdAt, expiresAt) ==
  [token |-> token, username |-> "admin", provider |-> "local",
   createdAt |-> datetime(createdAt), expiresAt |-> datetime(expiresAt)]

\* INSERT INTO auth_sessions ...; token is the primary key
createAuthSession(tbl, session) ==
  [k \in DOMAIN tbl \cup {session.token} |->
     IF k = session.token THEN session ELSE tbl[k]]

\* SELECT ... FROM auth_sessions WHERE token = ?; list[0]
selectAuthSession(tbl, token) ==
  IF token \in DOMAIN tbl THEN <<tbl[token]>> ELSE Null

\* a variant that lets a token live through the instant it expires at
expiredAfter(session, t) == session.expiresAt < t

\* session.expiresAt.getTime() <= Date.now()
expired(session, t) == session.expiresAt <= t

\* DELETE FROM auth_sessions WHERE token = ?
deleteAuthSession(tbl, token) ==
  [k \in DOMAIN tbl \ {token} |-> tbl[k]]

\* a variant that keeps the rows expiring at that very instant
pruneExpiredAuthSessionsStrict(tbl, t) ==
  [k \in { x \in DOMAIN tbl : ~(tbl[x].expiresAt < t) } |-> tbl[k]]

\* DELETE FROM auth_sessions WHERE expires_at <= ?
pruneExpiredAuthSessions(tbl, t) ==
  [k \in { x \in DOMAIN tbl : ~(tbl[x].expiresAt <= t) } |-> tbl[k]]

\* createAuthSession(session): the INSERT fails on a token the table has
CreateAuthSession(token, expiresAt) ==
  /\ token \notin DOMAIN authSessions
  /\ authSessions' =
       createAuthSession(authSessions, AuthSessionRow(token, now, expiresAt))
  /\ lastPrune' = Null
  /\ UNCHANGED << gwVars, mcpVars, now, getCall >>

\* getAuthSession(token), up to the result of its SELECT: no row returns
\* undefined
GetAuthSessionSelect(k, token) ==
  /\ getCall[k].phase \in {"idle", "returned"}
  /\ LET list == selectAuthSession(authSessions, token)
     IN getCall' = [getCall EXCEPT ![k] =
          IF list = Null
          THEN [phase |-> "returned", token |-> token, session |-> Null,
                returned |-> "undefined"]
          ELSE [phase |-> "selected", token |-> token, session |-> list,
                returned |-> "nothing"]]
  /\ UNCHANGED << gwVars, mcpVars, authSessions, now, lastPrune >>

\* the continuation: an expired row has its DELETE issued, any other row is
\* returned
GetAuthSessionCheck(k) ==
  /\ getCall[k].phase = "selected"
  /\ getCall' = [getCall EXCEPT ![k] =
       IF expired(getCall[k].session[1], now)
       THEN [@ EXCEPT !.phase = "deleting"]
       ELSE [@ EXCEPT !.phase = "returned", !.returned = "session"]]
  /\ UNCHANGED << gwVars, mcpVars, authSessions, now, lastPrune >>

\* await this.deleteAuthSession(token); return undefined
GetAuthSessionDelete(k) ==
  /\ getCall[k].phase = "deleting"
  /\ authSessions' = deleteAuthSession(authSessions, getCall[k].token)
  /\ getCall' = [getCall EXCEPT ![k] =
       [@ EXCEPT !.phase = "returned", !.returned = "undefined"]]
  /\ lastPrune' = Null
  /\ UNCHANGED << gwVars, mcpVars, now >>

DeleteAuthSession(token) ==
  /\ authSessions' = deleteAuthSession(authSessions, token)
  /\ lastPrune' = Null
  /\ UNCHANGED << gwVars, mcpVars, now, getCall >>

PruneExpiredAuthSessions(t) ==
  /\ authSessions' = pruneExpiredAuthSessions(authSessions, t)
  /\ lastPrune' = <<[now |-> t,
                     removed |-> { authSessions[k] :
                                   k \in DOMAIN authSessions \ DOMAIN authSessions' }]>>
  /\ UNCHANGED << gwVars, mcpVars, now, getCall >>

\* time passes
Tick ==
  /\ now < MaxTime
  /\ now' = now + 1
  /\ UNCHANGED << gwVars, mcpVars, authSessions, getCall, lastPrune >>

AuthNext ==
  \/ \E token \in Tokens, expiresAt \in Times : CreateAuthSession(token, expiresAt)
  \/ \E k \in Callers, token \in Tokens : GetAuthSessionSelect(k, token)
  \/ \E k \in Callers : GetAuthSessionCheck(k)
  \/ \E k \in Callers : GetAuthSessionDelete(k)
  \/ \E token \in Tokens : DeleteAuthSession(token)
  \/ \E t \in Times : PruneExpiredAuthSessions(t)
  \/ Tick

\* The auth session store under any callers.
AuthSpec == Init /\ [][AuthNext]_vars

\* ------------------------------------- MCP server: the recent sessions
RecentNext ==
  \/ \E targetId \in TargetIds, reason \in Reasons, ok \in BOOLEAN :
       CreateWebshellSessionCall(targetId, reason, ok)
  \/ Tick

\* The recent-sessions list of the MCP server over many creations.
RecentSpec == Init /\ [][RecentNext]_vars

\* ---------------------------------------------------------------- claims
Ready(c) ==
  /\ bridge[c].ssh = "ready"
  /\ bridge[c].shell = "open"
  /\ bridge[c].sock = "OPEN"

\* C1: in every reachable state every audit record has a non-null endTime
\* if and only if its status is not 'connected'.
C1_EndTimeIffNotConnected ==
  \A id \in DOMAIN audit :
    (audit[id].endTime # Null) <=> (audit[id].status # "connected")

C1_Witness ==
  \E id \in DOMAIN audit :
    /\ audit[id].status = "error"
    /\ audit[id].endTime # Null
    /\ \E c \in Conns : bridge[c].ssh = "ended" /\ infoOf(c).id = id

\* C2: once the error handler of an attach has run with the socket open
\* (the diagnostic was sent) and every other handler of that attach has run
\* and its updates have executed, the audit record has status 'error' and a
\* non-null endTime.
C2_ErrorIsTerminalStatus ==
  \A c \in Conns :
    (Finished(c) /\ sent[c] # << >> /\ infoOf(c).id \in DOMAIN audit)
      => /\ audit[infoOf(c).id].status = "error"
         /\ audit[infoOf(c).id].endTime # Null

\* C3: the socket 'close' event of an attach that reached ssh.connect ends
\* the ssh client and issues finalize(disconnected); executing that update
\* on a 'connected' record leaves it 'disconnected' with a non-null endTime.
C3_CallerCloseFinalizes ==
  [][ /\ \A c \in Conns :
          ((CallerClose(c) \/ CloseDone(c)) /\ bridge[c].phase = "bridging")
            => /\ bridge'[c].ssh = "ended"
               /\ finalizeWrite(c, "onClose", "disconnected") \in pending'
      /\ \A w \in pending :
          (ApplyWrite(w) /\ w.status = "disconnected" /\ w.id \in DOMAIN audit
             /\ audit[w.id].status = "connected")
            => /\ audit'[w.id].status = "disconnected"
               /\ audit'[w.id].endTime # Null ]_vars

C3_Witness ==
  \E c \in Conns :
    /\ bridge[c].phase = "bridging"
    /\ bridge[c].sock = "CLOSED"
    /\ sent[c] = << >>
    /\ audit[infoOf(c).id].status = "disconnected"
    /\ audit[infoOf(c).id].endTime = <<"onClose">>

\* C4: a connection whose handle is not in the sessions Map has its socket
\* closed at once, gets no ssh client and no handlers, and no step of it
\* issues or executes an audit update.
C4_UnknownHandleRejected ==
  [][ \A c \in Conns :
        bridge'[c].phase = "rejected"
          => /\ bridge'[c].sock \in {"CLOSING", "CLOSED"}
             /\ bridge'[c].ssh = "none"
             /\ bridge'[c].shell = "none"
             /\ ~bridge'[c].onClose
             /\ bridge'[c] # bridge[c] => (audit' = audit /\ pending' = pending) ]_vars

C4_Witness ==
  \E c \in Conns :
    /\ bridge[c].phase = "rejected"
    /\ bridge[c].sock = "CLOSED"
    /\ DOMAIN sessions # {}
    /\ \A id \in DOMAIN audit : audit[id].status = "connected"

\* C5: a POST /api/session answered 200 returns an id that randomUUID never
\* returned before and that is not yet a key of the sessions Map, and the
\* id is a key of the Map when the response is sent.
C5_FreshHandleLookupSucceeds ==
  [][ \A tid \in BodyTargetIds, reason \in Reasons :
        (ApiSession(tid, reason, TRUE) /\ sessionResponse(tid, TRUE).status = 200)
          => LET id == sessionResponse(tid, TRUE).id[1]
             IN /\ id \notin usedUUIDs
                /\ id \notin DOMAIN sessions
                /\ id \in DOMAIN sessions'
                /\ sessions'[id].id = id ]_vars

C5_Witness ==
  /\ Cardinality(DOMAIN sessions) = MaxSessions
  /\ usedUUIDs = DOMAIN sessions

\* C6: when the remote end closes the shell channel of a bridge whose socket
\* is open, the socket is closed and the audit record of the handle becomes
\* 'disconnected'.
C6_RemoteCloseFinalized ==
  \A c \in Conns : \A id \in UUIDs :
    (IF bridge[c].info = Null
       THEN FALSE
       ELSE /\ bridge[c].ssh = "ready"
            /\ bridge[c].shell = "closed"
            /\ bridge[c].sock = "CLOSING"
            /\ infoOf(c).id = id)
      ~> (IF id \in DOMAIN audit
            THEN /\ bridge[c].sock = "CLOSED"
                 /\ audit[id].status = "disconnected"
                 /\ audit[id].endTime # Null
            ELSE FALSE)

C6_Witness ==
  \E c \in Conns :
    /\ bridge[c].ssh = "ready"
    /\ bridge[c].shell = "closed"
    /\ bridge[c].sock = "CLOSING"
    /\ audit[infoOf(c).id].status = "connected"

\* C7: when the ssh client reports an error before the shell is open, or the
\* shell callback reports an error, while the socket is OPEN, the socket is
\* given one diagnostic message, socket.close() is called and
\* finalize(error) is issued.
C7_OpenFailureNotifiesAndFinalizes ==
  [][ \A c \in Conns :
        /\ (ShellFailed(c) /\ bridge[c].sock = "OPEN")
             => /\ sent'[c] = Append(sent[c], ShellFailedMsg)
                /\ bridge'[c].sock = "CLOSING"
                /\ finalizeWrite(c, "onShellError", "error") \in pending'
        /\ (SshError(c) /\ bridge[c].shell # "open" /\ bridge[c].sock = "OPEN")
             => /\ sent'[c] = Append(sent[c], ConnectFailedMsg)
                /\ bridge'[c].sock = "CLOSING"
                /\ finalizeWrite(c, "onError", "error") \in pending' ]_vars

C7_Witness ==
  \E c \in Conns :
    /\ sent[c] = <<ShellFailedMsg>>
    /\ bridge[c].sock = "CLOSING"
    /\ \E w \in pending : w.conn = c /\ w.status = "error"

\* C8: every audit id has exactly one record, and its (endTime, status) is
\* the pair of the finalize update executed last for that id, or
\* (null, 'connected') when none was executed.
C8_LastWriteWins ==
  /\ DOMAIN audit = usedUUIDs
  /\ \A id \in DOMAIN audit :
       IF id \in DOMAIN lastApplied
       THEN /\ audit[id].endTime = lastApplied[id].endTime
            /\ audit[id].status = lastApplied[id].status
       ELSE /\ audit[id].endTime = Null
            /\ audit[id].status = "connected"

\* both updates of one attach have executed, the error one last although it
\* was issued first or second
C8_Witness ==
  \E c \in Conns :
    /\ Finished(c)
    /\ bridge[c].onClose
    /\ sent[c] # << >>
    /\ infoOf(c).id \in DOMAIN lastApplied
    /\ lastApplied[infoOf(c).id].status = "error"

\* the target an open_ssh_terminal call chose
Selects(call, id) == call # Null /\ call[1].target.id = id

\* C9 as stated: for every target T whose displayName no other target has,
\* open_ssh_terminal with the hint T.displayName selects T.
C9_UniqueDisplayNameResolves ==
  [][ \A id \in DOMAIN targets, reason \in Reasons :
        (/\ targets[id].name # Null
         /\ \A o \in DOMAIN targets \ {id} : targets[o].name # targets[id].name
         /\ OpenSshTerminal(targets[id].name[1], reason))
          => Selects(mcpCall', id) ]_vars

\* no other target has a displayName or an id that equals s when both are
\* lower-cased
NoOtherMatches(id, s) ==
  \A o \in DOMAIN targets \ {id} :
    /\ toLowerCase(targets[o].id) # toLowerCase(s)
    /\ targets[o].name # Null => toLowerCase(targets[o].name[1]) # toLowerCase(s)

\* C9 (amended): for every target T whose displayName is not empty, has no
\* space at either end and, without regard to case, is neither the
\* displayName nor the id of another target, open_ssh_terminal with the
\* hint T.displayName selects T.
C9_UniqueAmongNamesAndIdsResolves ==
  [][ \A id \in DOMAIN targets, reason \in Reasons :
        (/\ targets[id].name # Null
         /\ targets[id].name[1] # EmptyStr
         /\ trim(targets[id].name[1]) = targets[id].name[1]
         /\ NoOtherMatches(id, targets[id].name[1])
         /\ OpenSshTerminal(targets[id].name[1], reason))
          => Selects(mcpCall', id) ]_vars

C9_Witness ==
  /\ mcpCall # Null
  /\ mcpCall[1].tool = "open_ssh_terminal"
  /\ mcpCall[1].target.name = mcpCall[1].query
  /\ mcpCall[1].target.name[1] # mcpCall[1].target.id
  /\ Cardinality(DOMAIN targets) = MaxTargets
  /\ NoOtherMatches(mcpCall[1].target.id, mcpCall[1].query[1])
  /\ \E o \in DOMAIN targets :
       includes(toLowerCase(o), toLowerCase(mcpCall[1].query[1]))

\* C10: create_ssh_web_terminal and POST /ui/session with a non-empty
\* targetId choose the target whose id is that targetId, and fail with
\* NotFound when no target has that id.
C10_ExactIdQuery ==
  [][ \A q \in Hints, reason \in Reasons :
        (/\ trim(q) # EmptyStr
         /\ CreateSshWebTerminal(<<q>>, reason) \/ UiSession(<<q>>, reason))
          => IF trim(q) \in DOMAIN targets
             THEN Selects(mcpCall', trim(q))
             ELSE reply' # Null /\ reply'[1].kind = "NotFound" ]_vars

\* the entry of a registry row in an error's list: 'name (id)', or the id
Rendered(row) ==
  IF row.name # Null /\ row.name[1] # row.id
  THEN row.name[1] \o <<" ", "(">> \o row.id \o <<")">>
  ELSE row.id

RECURSIVE SumLen(_)
SumLen(S) ==
  IF S = {} THEN 0
  ELSE LET x == CHOOSE y \in S : TRUE
       IN Len(Rendered(targets[x])) + SumLen(S \ {x})

\* text is the entries of exactly the targets of S, joined by ', '
ListsExactly(text, S) ==
  /\ \A id \in S : includes(text, Rendered(targets[id]))
  /\ Len(text) = SumLen(S) + 2 * (Cardinality(S) - 1)

\* s is the id or the displayName of the row, or a part of one of them,
\* without regard to case
ContainedIn(s, row) ==
  \/ includes(toLowerCase(row.id), toLowerCase(s))
  \/ row.name # Null /\ includes(toLowerCase(row.name[1]), toLowerCase(s))

\* an open_ssh_terminal call failed with this kind and created no session
FailsWith(kind) ==
  /\ reply' # Null
  /\ reply'[1].kind = kind
  /\ mcpCall' = Null
  /\ UNCHANGED << gwVars, recentSessions >>

\* C11 as stated: in a non-empty registry, open_ssh_terminal with a hint
\* that no target's id or displayName contains (without regard to case)
\* fails with NotFound, creates no session and lists every target.
C11_NoMatchIsNotFound ==
  [][ \A hint \in Hints, reason \in Reasons :
        (/\ DOMAIN targets # {}
         /\ \A id \in DOMAIN targets : ~ContainedIn(hint, targets[id])
         /\ OpenSshTerminal(hint, reason))
          => /\ FailsWith("NotFound")
             /\ ListsExactly(reply'[1].names, DOMAIN targets) ]_vars

\* C11 (amended): the same for a hint that, with the white space at its
\* ends removed, is not empty and is contained in no target's id or
\* displayName.
C11_NoMatchOfTrimmedHintIsNotFound ==
  [][ \A hint \in Hints, reason \in Reasons :
        (/\ DOMAIN targets # {}
         /\ trim(hint) # EmptyStr
         /\ \A id \in DOMAIN targets : ~ContainedIn(trim(hint), targets[id])
         /\ OpenSshTerminal(hint, reason))
          => /\ FailsWith("NotFound")
             /\ ListsExactly(reply'[1].names, DOMAIN targets) ]_vars

C11_Witness ==
  /\ reply # Null
  /\ reply[1].tool = "open_ssh_terminal"
  /\ reply[1].kind = "NotFound"
  /\ Cardinality(DOMAIN targets) = MaxTargets
  /\ \E id \in DOMAIN targets :
       targets[id].name # Null /\ targets[id].name[1] # id
  /\ \A id \in DOMAIN targets : ~ContainedIn(trim(reply[1].query[1]), targets[id])
  /\ ListsExactly(reply[1].names, DOMAIN targets)

\* the lower-cased s is the lower-cased id or displayName of the row
EqualTo(s, row) ==
  \/ toLowerCase(row.id) = toLowerCase(s)
  \/ row.name # Null /\ toLowerCase(row.name[1]) = toLowerCase(s)

\* the targets whose id or displayName contains s
Containing(s) == { id \in DOMAIN targets : ContainedIn(s, targets[id]) }

\* C12 as stated: open_ssh_terminal with a hint that no target's id or
\* displayName equals and that the id or displayName of two or more targets
\* contains fails with Ambiguous, creates no session and lists exactly the
\* targets containing the hint.
C12_SeveralPartialIsAmbiguous ==
  [][ \A hint \in Hints, reason \in Reasons :
        (/\ \A id \in DOMAIN targets : ~EqualTo(hint, targets[id])
         /\ Cardinality(Containing(hint)) >= 2
         /\ OpenSshTerminal(hint, reason))
          => /\ FailsWith("Ambiguous")
             /\ ListsExactly(reply'[1].names, Containing(hint)) ]_vars

\* C12 (amended): the same for the hint with the white space at its ends
\* removed, when that is not empty.
C12_SeveralPartialOfTrimmedHintIsAmbiguous ==
  [][ \A hint \in Hints, reason \in Reasons :
        (/\ trim(hint) # EmptyStr
         /\ \A id \in DOMAIN targets : ~EqualTo(trim(hint), targets[id])
         /\ Cardinality(Containing(trim(hint))) >= 2
         /\ OpenSshTerminal(hint, reason))
          => /\ FailsWith("Ambiguous")
             /\ ListsExactly(reply'[1].names, Containing(trim(hint))) ]_vars

\* two of three targets contain the hint, none equals it
C12_Witness ==
  /\ reply # Null
  /\ reply[1].tool = "open_ssh_terminal"
  /\ reply[1].kind = "Ambiguous"
  /\ Cardinality(DOMAIN targets) = 3
  /\ Cardinality(Containing(trim(reply[1].query[1]))) = 2
  /\ \A id \in DOMAIN targets : ~EqualTo(trim(reply[1].query[1]), targets[id])
  /\ ListsExactly(reply[1].names, Containing(trim(reply[1].query[1])))

\* s and t are the same text up to the case of their letters
DifferOnlyInCase(s, t) ==
  /\ Len(s) = Len(t)
  /\ \A i \in 1..Len(s) :
       s[i] = t[i] \/ {s[i], t[i]} \in { {"a", "A"}, {"b", "B"} }

\* C13: an open_ssh_terminal call with a hint has the outcome the call has
\* with any hint that differs from it only in the case of its letters: the
\* same target, or the same error with the same list.
C13_HintCaseIsIgnored ==
  [][ \A h1 \in Hints, h2 \in Hints, reason \in Reasons :
        (h1 # h2 /\ DifferOnlyInCase(h1, h2) /\ OpenSshTerminal(h1, reason))
          => LET r == openSshTerminalResolve(fetchWebshellTargets(targets), h2)
             IN IF r.kind = "ok"
                THEN mcpCall' # Null /\ mcpCall'[1].target = r.target[1]
                ELSE /\ mcpCall' = Null
                     /\ reply' # Null
                     /\ reply'[1].kind = r.kind
                     /\ reply'[1].names = r.names ]_vars

\* an upper-case hint chose a target by its lower-case id
C13_Witness ==
  /\ mcpCall # Null
  /\ mcpCall[1].tool = "open_ssh_terminal"
  /\ mcpCall[1].query = << <<"B">> >>
  /\ mcpCall[1].target.id = <<"b">>
  /\ mcpCall[1].target.name = Null

\* targetId values of a caller who names no target: absent, or blank
NoTargetId == { tid \in OptTargetIds : tid = Null \/ trim(tid[1]) = EmptyStr }

\* C14: create_ssh_web_terminal without a targetId (absent or blank) chooses
\* the only target of a registry of one, and createWebshellSession then
\* creates a session for it; with no target or several it fails and creates
\* no session, and with several the error lists every target.
C14_NoTargetIdConveniencePath ==
  [][ /\ \A tid \in NoTargetId, reason \in Reasons :
          CreateSshWebTerminal(tid, reason)
            => IF Cardinality(DOMAIN targets) = 1
               THEN \E id \in DOMAIN targets : Selects(mcpCall', id)
               ELSE IF Cardinality(DOMAIN targets) = 0
               THEN FailsWith("NoTargets")
               ELSE /\ FailsWith("ValidationError")
                    /\ ListsExactly(reply'[1].names, DOMAIN targets)
      /\ (mcpCall # Null /\ CreateWebshellSession)
            => /\ reply'[1].kind = "ok"
               /\ \E id \in DOMAIN sessions' \ DOMAIN sessions :
                    /\ sessions'[id].targetId = mcpCall[1].target.id
                    /\ reply'[1].sessionUrl = <<id>> ]_vars

C14_Witness ==
  /\ reply # Null
  /\ reply[1].tool = "create_ssh_web_terminal"
  /\ reply[1].query \in NoTargetId
  /\ reply[1].kind = "ok"
  /\ Cardinality(DOMAIN targets) = 1
  /\ \E id \in DOMAIN sessions :
       sessions[id].targetId \in DOMAIN targets /\ reply[1].sessionUrl = <<id>>

\* C15: getAuthSession on a row whose expiresAt is not later than the clock
\* at the comparison issues the DELETE of its token and then returns undefined
\* with no row of that token left; on a row whose expiresAt is later it
\* returns the row and writes nothing.
C15_ExpiredReadDeletes ==
  [][ \A k \in Callers :
        /\ (GetAuthSessionCheck(k) /\ getCall[k].session[1].expiresAt <= now)
             => /\ getCall'[k].phase = "deleting"
                /\ getCall'[k].returned = "nothing"
        /\ (GetAuthSessionCheck(k) /\ getCall[k].session[1].expiresAt > now)
             => /\ getCall'[k].phase = "returned"
                /\ getCall'[k].returned = "session"
                /\ getCall'[k].session = getCall[k].session
                /\ authSessions' = authSessions
        /\ GetAuthSessionDelete(k)
             => /\ getCall[k].session[1].expiresAt <= now
                /\ getCall'[k].returned = "undefined"
                /\ getCall[k].token \notin DOMAIN authSessions'
                /\ \A o \in DOMAIN authSessions \ {getCall[k].token} :
                     o \in DOMAIN authSessions' /\ authSessions'[o] = authSessions[o] ]_vars

\* a read at the very instant of expiry returned undefined, and the row of
\* the other token is still there
C15_Witness ==
  \E k \in Callers :
    /\ getCall[k].returned = "undefined"
    /\ getCall[k].session # Null
    /\ getCall[k].session[1].expiresAt = now
    /\ getCall[k].token \notin DOMAIN authSessions
    /\ DOMAIN authSessions # {}

\* C16: pruneExpiredAuthSessions(t) leaves no row with expiresAt <= t and
\* leaves every row with expiresAt > t as it was, and adds none.
C16_PruneRemovesExactlyExpired ==
  [][ \A t \in Times :
        PruneExpiredAuthSessions(t)
          => /\ \A k \in DOMAIN authSessions' : authSessions'[k].expiresAt > t
             /\ \A k \in DOMAIN authSessions :
                  authSessions[k].expiresAt > t
                    => k \in DOMAIN authSessions' /\ authSessions'[k] = authSessions[k]
             /\ DOMAIN authSessions' \subseteq DOMAIN authSessions ]_vars

\* a prune removed a row expiring at its very instant and kept another
C16_Witness ==
  /\ lastPrune # Null
  /\ \E r \in lastPrune[1].removed : r.expiresAt = lastPrune[1].now
  /\ \E k \in DOMAIN authSessions : authSessions[k].expiresAt > lastPrune[1].now

\* C17: the host, port and username an attach passes to ssh.connect are the
\* host, port and username of the audit record of its handle.
C17_AuditHoldsConnectParameters ==
  \A c \in Conns :
    (bridge[c].connect # Null /\ infoOf(c).id \in DOMAIN audit)
      => /\ bridge[c].connect[1].host = audit[infoOf(c).id].host
         /\ bridge[c].connect[1].port = audit[infoOf(c).id].port
         /\ bridge[c].connect[1].username = audit[infoOf(c).id].username

\* the fields of an audit record that its creation fixes
Captured(row) ==
  [targetId |-> row.targetId, targetName |-> row.targetName, host |-> row.host,
   port |-> row.port, username |-> row.username, startTime |-> row.startTime,
   reason |-> row.reason]

\* C18: no step (a target created, updated or deleted, a finalize update
\* issued or executed, or any other) changes the targetId, targetName,
\* host, port, username, startTime or reason of an audit record, or removes
\* the record.
C18_CapturedFieldsFixed ==
  [][ \A id \in DOMAIN audit :
        /\ id \in DOMAIN audit'
        /\ Captured(audit'[id]) = Captured(audit[id]) ]_vars

\* a finalized record still holds the host its target had before an edit
C18_Witness ==
  \E id \in DOMAIN audit :
    /\ audit[id].status # "connected"
    /\ audit[id].targetId \in DOMAIN targets
    /\ audit[id].host # targets[audit[id].targetId].host

\* C19: no step removes or changes an entry of the sessions Map: the
\* session page of a handle of the Map keeps answering 200, and an attach
\* with a handle of the Map is admitted, whatever the status of its audit
\* record.
C19_HandleNeverRemoved ==
  [][ /\ \A id \in DOMAIN sessions :
          /\ id \in DOMAIN sessions'
          /\ sessions'[id] = sessions[id]
          /\ sessionPage(sessions', id) = 200
      /\ \A c \in Conns, h \in DOMAIN sessions :
          Attach(c, h) => /\ bridge'[c].phase = "loading"
                          /\ bridge'[c].info = <<sessions[h]>>
                          /\ bridge'[c].sock = "OPEN" ]_vars

\* an attach was admitted on a handle whose audit record is finalized, with
\* a newer handle in the Map as well
C19_Witness ==
  \E c \in Conns :
    /\ bridge[c].phase = "loading"
    /\ infoOf(c).id \in DOMAIN audit
    /\ audit[infoOf(c).id].status \in {"disconnected", "error"}
    /\ \E id \in DOMAIN sessions : id > infoOf(c).id

\* C20: a restart leaves the sessions Map empty and the sessions table as
\* it was; from then on the session page answers 404 for a handle issued
\* before the restart as for one never issued, an attach with either is
\* rejected in the same way, and the audit record of the former exists.
C20_RestartForgetsHandles ==
  [][ /\ Restart => (DOMAIN sessions' = {} /\ audit' = audit)
      /\ \A h \in usedUUIDs \ DOMAIN sessions, n \in UUIDs \ usedUUIDs :
          /\ sessionPage(sessions, h) = 404
          /\ sessionPage(sessions, n) = 404
          /\ h \in DOMAIN audit
          /\ \A c \in Conns :
               Attach(c, h) \/ Attach(c, n)
                 => /\ bridge'[c] = [IdleBridge EXCEPT !.phase = "rejected",
                                                      !.sock = "CLOSING"]
                    /\ audit' = audit /\ pending' = pending ]_vars

\* after a restart an attach was rejected while every handle ever issued is
\* gone from the Map and has its audit record
C20_Witness ==
  /\ DOMAIN sessions = {}
  /\ Cardinality(usedUUIDs) = MaxSessions
  /\ usedUUIDs = DOMAIN audit
  /\ \E c \in Conns : bridge[c].phase = "rejected" /\ bridge[c].sock = "CLOSED"

\* C21: list_ssh_targets returns a payload and never throws: when the fetch
\* fails the payload has an error message and no targets; when it succeeds
\* the payload has no error and one entry per target of the registry, in
\* the order of the ids, numbered 1..n.
C21_ListNeverThrows ==
  [][ \A fetchOk \in BOOLEAN :
        ListSshTargets(fetchOk)
          => LET p == reply'[1].payload
             IN /\ ~reply'[1].threw
                /\ IF fetchOk
                   THEN /\ p.error = Null
                        /\ Len(p.targets) = Cardinality(DOMAIN targets)
                        /\ { p.targets[i].id : i \in 1..Len(p.targets) } = DOMAIN targets
                        /\ \A i \in 1..Len(p.targets) :
                             /\ p.targets[i].index = i
                             /\ i > 1 => strLess(p.targets[i - 1].id, p.targets[i].id)
                   ELSE /\ p.error # Null
                        /\ p.targets = << >> ]_vars

C21_Witness ==
  /\ reply # Null
  /\ reply[1].tool = "list_ssh_targets"
  /\ reply[1].payload.error = Null
  /\ Len(reply[1].payload.targets) = 3
  /\ reply[1].payload.targets[3].index = 3
  /\ \E i \in 1..3 : reply[1].payload.targets[i].name # reply[1].payload.targets[i].id

\* C22: after every step recentSessions is the sessions recorded so far,
\* newest first, cut to the 20 newest, with createdAt never increasing
\* down the list; a createWebshellSession that throws leaves it as it was.
C22_RecentSessionsNewestFirst ==
  [][ /\ LET n == Len(recentHistory')
             k == IF n > 20 THEN 20 ELSE n
         IN /\ Len(recentSessions') = k
            /\ \A i \in 1..k : recentSessions'[i] = recentHistory'[n - i + 1]
            /\ \A i \in 2..k :
                 recentSessions'[i - 1].createdAt >= recentSessions'[i].createdAt
      /\ \A targetId \in TargetIds, reason \in Reasons :
           CreateWebshellSessionCall(targetId, reason, FALSE)
             => recentSessions' = recentSessions ]_vars

\* the 21st session pushed the oldest one out, and a failing call followed
C22_Witness ==
  /\ Len(recentHistory) = 21
  /\ Len(recentSessions) = 20
  /\ recentSessions[20] = recentHistory[2]
  /\ recentSessions[1].createdAt > recentSessions[20].createdAt
  /\ reply # Null
  /\ reply[1].kind = "UpstreamError"

\* C23: between the requests to POST /api/session, the keys of the sessions
\* Map are the ids of the rows of the sessions table.
C23_HandleIffAuditRecord == DOMAIN sessions = DOMAIN audit

\* C24: an attach issues exactly one finalize update, so two updates issued
\* by one attach are never outstanding together.
C24_OneFinalizePerAttach ==
  \A c \in Conns : Cardinality({ w \in pending : w.conn = c }) <= 1

\* the ids of the targets in the exact tier of open_ssh_terminal for a hint
ExactTier(hint) ==
  LET m == exactMatches(fetchWebshellTargets(targets), toLowerCase(trim(hint)))
  IN { m[i].id : i \in 1..Len(m) }

SameName(a, b) ==
  /\ targets[a].name # Null
  /\ targets[a].name = targets[b].name

\* equal without regard to case: the two displayNames, the displayName of
\* one and the id of the other, or the two ids
TiedByNameOrId(a, b) ==
  LET na == targets[a].name
      nb == targets[b].name
  IN \/ na # Null /\ nb # Null /\ toLowerCase(na[1]) = toLowerCase(nb[1])
     \/ na # Null /\ toLowerCase(na[1]) = toLowerCase(b)
     \/ nb # Null /\ toLowerCase(nb[1]) = toLowerCase(a)
     \/ toLowerCase(a) = toLowerCase(b)

\* C25 as stated: when open_ssh_terminal finds two or more exact matches,
\* two of them have the same displayName.
C25_ExactTieSharesName ==
  [][ \A hint \in Hints, reason \in Reasons :
        (OpenSshTerminal(hint, reason) /\ Cardinality(ExactTier(hint)) >= 2)
          => \E a \in ExactTier(hint), b \in ExactTier(hint) :
               a # b /\ SameName(a, b) ]_vars

\* C25 (amended): when open_ssh_terminal finds two or more exact matches,
\* any two of them have, without regard to case, the same displayName, or
\* the displayName of one is the id of the other, or the same id.
C25_ExactTieSharesNameOrId ==
  [][ \A hint \in Hints, reason \in Reasons :
        (OpenSshTerminal(hint, reason) /\ Cardinality(ExactTier(hint)) >= 2)
          => \A a \in ExactTier(hint), b \in ExactTier(hint) :
               a # b => TiedByNameOrId(a, b) ]_vars

\* a tie of a displayName with the id of a target that has no displayName
C25_Witness ==
  /\ reply # Null
  /\ reply[1].tool = "open_ssh_terminal"
  /\ reply[1].kind = "Ambiguous"
  /\ Cardinality(ExactTier(reply[1].query[1])) = 2
  /\ \E a \in ExactTier(reply[1].query[1]) : targets[a].name = Null
  /\ Cardinality(DOMAIN targets) = 3

\* the targets whose id or displayName equals s, without regard to case
Equalling(s) == { id \in DOMAIN targets : EqualTo(s, targets[id]) }

\* the candidate set by tier precedence
ByPrecedence(s) == IF Equalling(s) # {} THEN Equalling(s) ELSE Containing(s)

\* the step chose the only candidate, or failed Ambiguous listing exactly
\* the candidates when there are several
DecidedAmong(S) ==
  /\ Cardinality(S) = 1 => \E id \in S : Selects(mcpCall', id)
  /\ Cardinality(S) >= 2 => /\ FailsWith("Ambiguous")
                            /\ ListsExactly(reply'[1].names, S)

\* C26 as stated: open_ssh_terminal decides among the targets equalling
\* the hint when there is one, and among the targets containing the hint
\* only when there is none; a single candidate is selected.
C26_TierPrecedence ==
  [][ \A hint \in Hints, reason \in Reasons :
        OpenSshTerminal(hint, reason) => DecidedAmong(ByPrecedence(hint)) ]_vars

\* C26 (amended): the same for the hint with the white space at its ends
\* removed, when that is not empty.
C26_TierPrecedenceOfTrimmedHint ==
  [][ \A hint \in Hints, reason \in Reasons :
        (trim(hint) # EmptyStr /\ OpenSshTerminal(hint, reason))
          => DecidedAmong(ByPrecedence(trim(hint))) ]_vars

\* one target equals the hint, another only contains it, and the first
\* was selected
C26_Witness ==
  /\ mcpCall # Null
  /\ mcpCall[1].tool = "open_ssh_terminal"
  /\ Equalling(trim(mcpCall[1].query[1])) = {mcpCall[1].target.id}
  /\ Cardinality(Containing(trim(mcpCall[1].query[1]))) >= 2

\* C27: POST /api/session with a targetId that is blank, or that after
\* trimming is the id of no target, is answered with an error status and
\* leaves the sessions Map, the session_history table and everything else
\* the gateway holds as they were.
C27_BadTargetIdChangesNothing ==
  [][ \A tid \in BodyTargetIds, reason \in Reasons :
        (/\ trim(tid) = EmptyStr \/ trim(tid) \notin DOMAIN targets
         /\ PostApiSession(tid, reason, TRUE))
          => /\ reply'[1].status >= 400
             /\ sessions' = sessions
             /\ audit' = audit
             /\ UNCHANGED gwVars ]_vars

\* an unknown targetId was refused while a handle and its record existed
C27_Witness ==
  /\ reply # Null
  /\ reply[1].status = 500
  /\ trim(reply[1].body) # EmptyStr
  /\ DOMAIN targets = {}
  /\ Cardinality(DOMAIN sessions) = 1
  /\ DOMAIN audit = DOMAIN sessions
  /\ usedUUIDs = DOMAIN sessions

\* the step is a new WebSocket connection taking slot c
NewAttach(c) == \E h \in UUIDs : Attach(c, h)

\* the ssh client of connection c has ended, or its shell channel has been
\* closed
Closed(c) == bridge[c].ssh = "ended" \/ bridge[c].shell = "closed"

\* C29: within one connection ssh.connect is called at most once, a client
\* that was ready does not go back to connecting, and once the client has
\* ended or the shell channel has closed, the client is never connecting
\* again and the channel never requested or open again; only a new
\* WebSocket connection starts over.
C29_NoReconnectWithinAttach ==
  [][ \A c \in Conns :
        ~NewAttach(c)
          => /\ bridge[c].connect # Null => bridge'[c].connect = bridge[c].connect
             /\ bridge[c].ssh = "ready" => bridge'[c].ssh # "connecting"
             /\ bridge[c].ssh = "ended" => bridge'[c].ssh = "ended"
             /\ Closed(c) => /\ bridge'[c].ssh # "connecting"
                             /\ bridge'[c].shell \notin {"requested", "open"}
                             /\ bridge'[c].sock # "OPEN" ]_vars

\* a connection whose ssh client failed before it was ready, now closed
C29_Witness ==
  \E c \in Conns :
    /\ bridge[c].connect # Null
    /\ bridge[c].ssh = "ended"
    /\ bridge[c].shell = "none"
    /\ bridge[c].sock = "CLOSED"
    /\ sent[c] = <<ConnectFailedMsg>>

\* the chunks the shell channel of connection c emitted while the socket
\* was OPEN, in the order of their 'data' events
OpenChunks(c) == SelectSeq(channel[c].emitted, LAMBDA e : e.open)

\* the messages the socket of connection c received once its listener was
\* registered, in the order of their 'message' events
HeardMessages(c) == SelectSeq(channel[c].messages, LAMBDA m : m.listening)

\* C30 as stated: while the shell channel of a connection is open, the
\* payloads the socket has sent are, byte for byte and in order, the chunks
\* the channel emitted while the socket was OPEN, and the stream.write calls
\* are, in order, the messages the socket received since the listener was
\* registered.
C30_OrderPreserved ==
  \A c \in Conns :
    bridge[c].shell = "open"
      => /\ Len(sent[c]) = Len(OpenChunks(c))
         /\ \A i \in 1..Len(OpenChunks(c)) :
              utf8(sent[c][i]) = OpenChunks(c)[i].data
         /\ Len(channel[c].written) = Len(HeardMessages(c))
         /\ \A i \in 1..Len(HeardMessages(c)) :
              channel[c].written[i] = HeardMessages(c)[i].message

\* the shell channel of connection c is open and its socket is OPEN
ReadyBridge(c) == bridge[c].shell = "open" /\ bridge[c].sock = "OPEN"

\* what the socket of connection c was given to send is, in order, the
\* strings of the chunks its own shell channel emitted while it was OPEN
OwnChunksOnly(c) ==
  /\ Len(sent[c]) = Len(OpenChunks(c))
  /\ \A i \in 1..Len(OpenChunks(c)) :
       sent[c][i] = toStringUtf8(OpenChunks(c)[i].data)

\* C28: a WebSocket connection for a session of which another connection
\* has its shell channel open is taken on like the first and connects its
\* own ssh client; a chunk a shell channel emits goes to the socket of its
\* own connection and to no other; the close of one connection's socket
\* ends the ssh client of that connection and leaves the others as they
\* are.
C28_NoExclusivityIndependentBridges ==
  [][ \A c \in Slots : \A d \in Slots \ {c} :
        /\ \A h \in DOMAIN sessions :
             (/\ ReadyBridge(d)
              /\ infoOf(d).id = h
              /\ Attach(c, h))
               => /\ bridge'[c].phase = "loading"
                  /\ bridge'[c].sock = "OPEN"
                  /\ bridge'[d] = bridge[d]
        /\ (bridge[c].phase = "loading" /\ LoadTarget(c) /\ ReadyBridge(d))
             => /\ bridge'[c].ssh = "connecting"
                /\ bridge'[d] = bridge[d]
        /\ \A data \in Chunks :
             StreamData(c, data)
               => /\ sent'[d] = sent[d]
                  /\ ReadyBridge(c) => sent'[c] = Append(sent[c], toStringUtf8(data))
        /\ (ReadyBridge(c) /\ ReadyBridge(d))' => (OwnChunksOnly(c))'
        /\ (ReadyBridge(c) /\ (CallerClose(c) \/ CloseDone(c)))
             => /\ bridge'[c].ssh = "ended"
                /\ bridge'[d] = bridge[d] ]_vars

\* two connections of one session with their shell channels open, each
\* socket having been sent a chunk of its own channel
C28_Witness ==
  \E c \in Slots : \E d \in Slots \ {c} :
    /\ ReadyBridge(c)
    /\ ReadyBridge(d)
    /\ infoOf(c).id = infoOf(d).id
    /\ sent[c] = <<toStringUtf8(<<"61">>)>>
    /\ sent[d] = <<toStringUtf8(<<"C3", "A9">>)>>

\* C31: a 'data' event of the shell channel of a connection whose socket is
\* not OPEN sends nothing, issues no update, and leaves the audit table,
\* the socket and the ssh client as they are; and what a 'data' event sends
\* it sends on an OPEN socket.
C31_ChunkAfterCloseDropped ==
  [][ \A c \in Conns, data \in Chunks :
        StreamData(c, data)
          => /\ bridge[c].sock # "OPEN"
                  => /\ sent' = sent
                     /\ audit' = audit
                     /\ pending' = pending
                     /\ bridge' = bridge
             /\ sent' # sent => bridge[c].sock = "OPEN" ]_vars

\* the channel emitted a chunk between the caller's close frame and the
\* socket's 'close' event: nothing was sent and the record is as it was
C31_Witness ==
  \E c \in Conns :
    /\ bridge[c].sock = "CLOSING"
    /\ bridge[c].shell = "open"
    /\ Len(channel[c].emitted) = 1
    /\ ~channel[c].emitted[1].open
    /\ sent[c] = << >>
    /\ pending = {}
    /\ audit[infoOf(c).id].status = "connected"

\* the columns of an audit record other than endTime and status
Kept(row) ==
  [id |-> row.id, targetId |-> row.targetId, targetName |-> row.targetName,
   host |-> row.host, port |-> row.port, username |-> row.username,
   startTime |-> row.startTime, reason |-> row.reason]

\* C32: the store executing a finalize update of one handle leaves every
\* other audit record, the other columns of that handle's record, the
\* sessions Map and the targets table as they are, and leaves the updates
\* issued for other handles pending.
C32_FinalizeTouchesOwnRecordOnly ==
  [][ \A w \in pending :
        ApplyWrite(w)
          => /\ DOMAIN audit' = DOMAIN audit
             /\ \A id \in DOMAIN audit \ {w.id} : audit'[id] = audit[id]
             /\ w.id \in DOMAIN audit
                  => /\ Kept(audit'[w.id]) = Kept(audit[w.id])
                     /\ audit'[w.id].endTime = w.endTime
                     /\ audit'[w.id].status = w.status
             /\ sessions' = sessions
             /\ targets' = targets
             /\ \A v \in pending : v.id # w.id => v \in pending' ]_vars

\* the record of one handle was finalized while an update of another
\* handle is pending and the record of that handle is still 'connected'
C32_Witness ==
  \E w \in pending : \E id \in DOMAIN audit \ {w.id} :
    /\ w.id \in DOMAIN audit
    /\ audit[w.id].status = "connected"
    /\ audit[id].status = "error"
    /\ id \in DOMAIN lastApplied

\* C33 as stated, its concurrent case: when two PUT requests for the same
\* target, one supplying only the host and the other only the username,
\* have both been answered 200, the target holds the host of the one and
\* the username of the other.
C33_DisjointUpdatesBothStored ==
  \A r1 \in Requesters : \A r2 \in Requesters \ {r1} :
    (/\ calls[r1].phase = "done" /\ calls[r1].op = "put" /\ calls[r1].status = 200
     /\ calls[r2].phase = "done" /\ calls[r2].op = "put" /\ calls[r2].status = 200
     /\ calls[r1].id = calls[r2].id
     /\ calls[r1].body[1].host # "" /\ calls[r1].body[1].username = ""
     /\ calls[r2].body[1].host = "" /\ calls[r2].body[1].username # "")
      => /\ calls[r1].id \in DOMAIN targets
         /\ targets[calls[r1].id].host = calls[r1].body[1].host
         /\ targets[calls[r1].id].username = calls[r2].body[1].username

\* C39 as stated, its concurrent case: when two POST requests with the same
\* id have both been answered, both were answered 201 and the table holds
\* the id.
C39_ConcurrentCreatesBothSucceed ==
  \A r1 \in Requesters : \A r2 \in Requesters \ {r1} :
    (/\ calls[r1].phase = "done" /\ calls[r1].op = "post"
     /\ calls[r2].phase = "done" /\ calls[r2].op = "post"
     /\ calls[r1].id = calls[r2].id)
      => /\ calls[r1].status = 201
         /\ calls[r2].status = 201
         /\ calls[r1].id \in DOMAIN targets

\* C34 as stated: when a connection that was taken on for a handle of the
\* Map has its socket CLOSED, no ssh client connecting or ready and none of
\* its updates pending, the audit record of the handle has an endTime and a
\* status other than 'connected'.
C34_AdmittedAttachIsFinalized ==
  \A c \in Conns :
    (Finished(c) /\ bridge[c].info # Null /\ infoOf(c).id \in DOMAIN audit)
      => /\ audit[infoOf(c).id].status # "connected"
         /\ audit[infoOf(c).id].endTime # Null

\* C35 as stated: while the shell channel of a connection is open and its
\* socket is OPEN, the audit record of its handle has status 'connected'
\* and no endTime.
C35_ReadyMeansConnected ==
  \A c \in Slots :
    (ReadyBridge(c) /\ infoOf(c).id \in DOMAIN audit)
      => /\ audit[infoOf(c).id].status = "connected"
         /\ audit[infoOf(c).id].endTime = Null

\* C36: an audit record whose status is 'disconnected' or 'error' stays in
\* the table, keeps a status other than 'connected' and keeps an endTime,
\* whatever step comes next.
C36_StatusMonotone ==
  [][ \A id \in DOMAIN audit :
        audit[id].status # "connected"
          => /\ id \in DOMAIN audit'
             /\ audit'[id].status # "connected"
             /\ audit'[id].endTime # Null ]_vars

\* a handle whose record is finalized has a later connection with its
\* shell channel open, and an update of an earlier connection still pending
C36_Witness ==
  \E c \in Slots :
    /\ ReadyBridge(c)
    /\ infoOf(c).id \in DOMAIN audit
    /\ audit[infoOf(c).id].status = "error"
    /\ \E w \in pending : w.id = infoOf(c).id /\ w.conn # c

\* C37 as stated: the DELETE of a getAuthSession call removes no row whose
\* expiresAt is later than the clock.
C37_GetNeverRemovesLiveToken ==
  [][ \A k \in Callers :
        (GetAuthSessionDelete(k) /\ getCall[k].token \in DOMAIN authSessions)
          => authSessions[getCall[k].token].expiresAt <= now ]_vars

\* the registries that differ from tbl in password and privateKey values only
CredentialTwins(tbl) ==
  { other \in SecretRegistries :
      /\ DOMAIN other = DOMAIN tbl
      /\ \A id \in DOMAIN tbl :
           [other[id] EXCEPT !.password = Null, !.privateKey = Null]
             = [tbl[id] EXCEPT !.password = Null, !.privateKey = Null] }

\* the suggestion string the request of reply rep gets over registry tbl
SuggestionOver(tbl, rep) ==
  LET list == fetchWebshellTargets(tbl)
  IN IF rep.tool = "open_ssh_terminal"
     THEN openSshTerminalResolve(list, rep.query[1]).names
     ELSE IF rep.tool = "create_ssh_web_terminal"
     THEN createSshWebTerminalResolve(list, rep.query).names
     ELSE uiSessionResolve(list, rep.query).names

\* the reply rep of a request, as the same request is answered over tbl
AnsweredOver(tbl, rep) ==
  IF rep.tool = "list_ssh_targets"
  THEN IF rep.payload.error = Null
       THEN [rep EXCEPT !.payload = listSshTargetsPayload(fetchWebshellTargets(tbl))]
       ELSE rep
  ELSE IF rep.tool = "GET /ui/targets"
  THEN IF rep.status = 200
       THEN [rep EXCEPT !.targets = fetchWebshellTargets(tbl)]
       ELSE rep
  ELSE IF rep.kind \in {"NotFound", "Ambiguous"}
  THEN [rep EXCEPT !.names = SuggestionOver(tbl, rep)]
  ELSE rep

\* C38: credential material never reaches the MCP-side outputs: the result
\* of list_ssh_targets, the body of GET /ui/targets and the suggestion string
\* of a NotFound or Ambiguous error are the same over every registry that
\* differs from the present one in password and privateKey values only.
C38_CredentialsNeverReachOutputs ==
  reply # Null =>
    \A other \in CredentialTwins(targets) : reply[1] = AnsweredOver(other, reply[1])

\* an Ambiguous error that lists targets holding a password, over a registry
\* that has a twin with other credentials
C38_Witness ==
  /\ reply # Null
  /\ reply[1].tool = "open_ssh_terminal"
  /\ reply[1].kind = "Ambiguous"
  /\ reply[1].names # EmptyStr
  /\ \A id \in DOMAIN targets : targets[id].password # Null
  /\ \E other \in CredentialTwins(targets) : other # targets

\* the first n calls of WebshellDb.create() all failed
AllFailed(n) == \A i \in 1..n : ~boot.creates[i].ok

LastCreate ==
  IF boot.creates = << >> THEN rejected(FailedToInit)
  ELSE boot.creates[Len(boot.creates)]

C40_Settled == boot.pc \in {"returned", "threw"}

C40_Safe ==
  /\ Len(boot.creates) <= boot.maxRetries
  /\ AllFailed(Len(boot.creates) - 1)
  /\ (boot.creates # << >> /\ LastCreate.ok) => boot.pc = "returned"
  /\ boot.pc = "returned" =>
       /\ boot.creates # << >>
       /\ LastCreate.ok
       /\ boot.returned = LastCreate.db
       /\ boot.thrown = Null
  /\ boot.pc = "threw" =>
       /\ Len(boot.creates) = boot.maxRetries
       /\ AllFailed(Len(boot.creates))
       /\ boot.thrown = LastCreate.error
       /\ boot.returned = Null

\* C40: createDbWithRetry terminates: it returns the handle of the first
\* successful WebshellDb.create() and calls it no more after a success, and
\* after maxRetries failures in a row it throws the last error, having called
\* it exactly maxRetries times.
C40_RetryTerminates == []C40_Safe /\ <>C40_Settled

\* the call threw after maxRetries failures whose last error is not the first
C40_Witness ==
  /\ boot.pc = "threw"
  /\ Len(boot.creates) = DefaultMaxRetries
  /\ boot.creates[1].error # LastCreate.error

====
